---- MODULE Spec2Model ----
(***************************************************************************)
(* Model of the emotion_detection_app core:                                *)
(*   - BaselineManager (src/baseline_manager.py): the calibration store    *)
(*     and the delta engine;                                               *)
(*   - analyze_image_multi / get_detector (src/image_processor.py,         *)
(*     src/emotion_backends.py): the ensemble aggregator.                  *)
(*   - _detect_facs_combinations (src/facs_backend.py): the FACS           *)
(*     combinations of the two AU adapters.                                *)
(*   - FERDetector, DeepFaceDetector, FACSDetector, SimpleFACSDetector     *)
(*     (src/emotion_backends.py, src/facs_backend.py): the adapters.       *)
(* Spec is the calibration store, SpecEnsemble the aggregator, SpecDelta   *)
(* the delta engine over an active baseline, SpecFunctions the functions   *)
(* that read no state, SpecAdapters the adapters called one at a time,     *)
(* SpecDetectConcurrent DeepFaceDetector.detect called in two threads and  *)
(* SpecStoreConcurrent the calibration store called from two threads.      *)
(*                                                                         *)
(* Python dicts are TLA+ records/functions: "k in d" is k \in DOMAIN d.    *)
(* Intensities are integers in thousandths (0.2 is 200), emotion scores    *)
(* and confidences integers in hundredths (0.8 is 80).                     *)
(***************************************************************************)
EXTENDS Integers, Sequences, FiniteSets, TLC

VARIABLES
    current_baseline,    \* BaselineManager.current_baseline (None or a dict)
    baseline_timestamp,  \* BaselineManager.baseline_timestamp
    files,               \* baseline_dir: file key -> absent | corrupt | document
    clock,               \* wall clock read by datetime.now() / time.time()
    call,                \* the last completed store call: op, arguments, and what it
                         \* returned (ret: a bool, result: a dict or None)
    written,             \* history: per person, the dict set_baseline built for the
                         \* durable record that is still intact (None when there is none)
    pc,                  \* analyze_image_multi: "idle", "loop" or "done"
    backends,            \* analyze_image_multi: the requested backend names
    idx,                 \* analyze_image_multi: loop position in backends
    returned,            \* history: backend name -> what its adapter call did
    results,             \* analyze_image_multi: results dict
    successful_results,  \* analyze_image_multi: successful_results dict (ordered)
    outcome,             \* analyze_image_multi: how the call ended
    temp_dir,            \* tempfile.gettempdir(): temp file name -> absent | content
    detected,            \* history: emotion adapter -> the record its last detect returned
    threads              \* calls in progress in the threads of the server process:
                         \* thread -> position and local variables of its call

storeVars == <<current_baseline, baseline_timestamp, files, clock, call, written>>
ensembleVars == <<pc, backends, idx, returned, results, successful_results, outcome>>
adapterVars == <<temp_dir, detected, threads>>
vars == <<current_baseline, baseline_timestamp, files, clock, call, written,
          pc, backends, idx, returned, results, successful_results, outcome,
          temp_dir, detected, threads>>

----------------------------------------------------------------------------
(* Bounds of the model *)

\* the wall clock takes the values 0..MaxClock
MaxClock == 2

\* longest list of backend names handed to analyze_image_multi
MaxBackends == 3

----------------------------------------------------------------------------
(* Python values *)

\* Python's None
None == [py_none |-> TRUE]

\* isinstance(x, dict)
IsDict(x) == "py_none" \notin DOMAIN x

\* truth value of an Optional[dict]: None and {} are falsy
Truthy(x) == IsDict(x) /\ DOMAIN x # {}

\* d.get(k, default)
Get(d, k, default) == IF k \in DOMAIN d THEN d[k] ELSE default

\* datetime.isoformat(): the text of a time, and datetime.fromisoformat()
isoformat(t) == [iso |-> t]
fromisoformat(text) == text.iso

\* d with d[k] = v
DictSet(d, k, v) == [x \in DOMAIN d \cup {k} |-> IF x = k THEN v ELSE d[x]]

----------------------------------------------------------------------------
(* Inputs of the calibration store *)

Persons == {"default", "alice"}

\* action_units mappings an AU adapter can return: AU code -> {intensity}
\* (an adapter keeps only AUs above its inclusion threshold, so the mapping
\* of a detected face may be empty: facs_backend.py:161-172)
EmptyAUs == [a \in {} |-> [intensity |-> 0]]
AUMaps ==
    { EmptyAUs,
      [a \in {"AU06", "AU12"} |-> [intensity |-> IF a = "AU06" THEN 300 ELSE 600]] }

\* the record FACSDetector.analyze / SimpleFACSDetector.analyze return for a face
FacsSuccess(aus, analyzer) ==
    [ action_units |-> aus,
      analyzer |-> analyzer,
      face_detected |-> TRUE,
      analysis_type |-> "pure_facs",
      total_aus_detected |-> Cardinality(DOMAIN aus) ]

\* the record the AU adapters return on failure / no face
FacsError(analyzer) ==
    [ error |-> <<"No face detected">>,
      analyzer |-> analyzer,
      face_detected |-> FALSE,
      analysis_type |-> "pure_facs" ]

\* an emotion record as FERDetector.detect returns it (not an AU record)
EmotionInput ==
    [ emotions |-> [e \in {"happiness"} |-> 80],
      dominant_emotion |-> "happiness",
      backend |-> "FER",
      confidence_score |-> 80,
      face_detected |-> TRUE ]

\* a dict carrying action units for which no face was detected
NoFaceWithAUs ==
    [ action_units |-> [a \in {"AU12"} |-> [intensity |-> 200]],
      analyzer |-> "FACS",
      face_detected |-> FALSE,
      analysis_type |-> "pure_facs",
      total_aus_detected |-> 1 ]

\* an AU mapping that does not come from an AU-producing detector
AUsWithoutOrigin ==
    [ action_units |-> [a \in {"AU12"} |-> [intensity |-> 200]],
      face_detected |-> TRUE ]

FacsInputs ==
    { FacsSuccess(m, "FACS") : m \in AUMaps }
    \cup { FacsError("SimpleFACS"), EmotionInput, NoFaceWithAUs, AUsWithoutOrigin, None }

----------------------------------------------------------------------------
(* BaselineManager helpers *)

\* the validity test without the test for a detected face
is_valid_facs_result_any_face(facs_result) ==
    /\ IsDict(facs_result)
    /\ "action_units" \in DOMAIN facs_result
    /\ Get(facs_result, "analysis_type", "absent") = "pure_facs"

\* _is_valid_facs_result
is_valid_facs_result(facs_result) ==
    /\ IsDict(facs_result)
    /\ "action_units" \in DOMAIN facs_result
    /\ Get(facs_result, "analysis_type", "absent") = "pure_facs"
    /\ Get(facs_result, "face_detected", FALSE)

\* baseline_data that adds the AU count of the baseline already in memory
baseline_data_accumulating(facs_result, person_id, now) ==
    [ person_id |-> person_id,
      timestamp |-> isoformat(now),
      action_units |-> Get(facs_result, "action_units", EmptyAUs),
      total_aus_detected |->
          Get(facs_result, "total_aus_detected", 0)
          + (IF Truthy(current_baseline) THEN current_baseline.total_aus_detected + 1 ELSE 0),
      analyzer |-> Get(facs_result, "analyzer", "unknown"),
      note |-> <<"Baseline set for", person_id>> ]

\* the baseline_data dict literal of set_baseline
baseline_data(facs_result, person_id, now) ==
    [ person_id |-> person_id,
      timestamp |-> isoformat(now),
      action_units |-> Get(facs_result, "action_units", EmptyAUs),
      total_aus_detected |-> Get(facs_result, "total_aus_detected", 0),
      analyzer |-> Get(facs_result, "analyzer", "unknown"),
      note |-> <<"Baseline set for", person_id>> ]

\* one file for every person
baseline_file_shared(person_id) == "default"

\* key of a person's baseline file in baseline_dir
baseline_file(person_id) == person_id

\* json.dump: the document is the text of the object, modelled as its set of
\* members, nested objects as sets of members in turn
json_dump(data) ==
    [ state |-> "document",
      members |->
        { <<k, data[k]>> : k \in DOMAIN data \ {"action_units"} }
        \cup { <<"action_units", au, "intensity", data.action_units[au].intensity>> :
                 au \in DOMAIN data.action_units }
        \cup { <<"action_units">> } ]

\* json.load of a document json.dump wrote
json_load(doc) ==
    LET scalars == { m \in doc.members : Len(m) = 2 }
        aus == { m \in doc.members : Len(m) = 4 }
        keys == { m[1] : m \in scalars }
        value(k) == (CHOOSE m \in scalars : m[1] = k)[2]
        intensity(au) == (CHOOSE m \in aus : m[2] = au)[4]
    IN  [ k \in keys \cup {"action_units"} |->
            IF k = "action_units"
            THEN [ au \in { m[2] : m \in aus } |-> [intensity |-> intensity(au)] ]
            ELSE value(k) ]

NoFile == [state |-> "absent"]
CorruptFile == [state |-> "corrupt"]

\* os.path.exists(baseline_file)
exists(f) == files[f].state # "absent"

\* open(baseline_file, 'a'): the document is appended to what the file holds,
\* and two documents in one file are no JSON document
append_document(f, data) ==
    IF exists(f) THEN CorruptFile ELSE json_dump(data)

\* open(baseline_file, 'w') and json.dump: the file holds the new document only
write_document(f, data) == json_dump(data)

----------------------------------------------------------------------------
(* Delta engine.  Intensities are Python floats.  A float that lies next   *)
(* to a 3-decimal value is the record [t, off]: t is that value in         *)
(* thousandths (what round(x, 3) gives), off is the distance of the float  *)
(* from the double nearest to t/1000, in units of 2^-61.                   *)

Abs(x) == IF x < 0 THEN -x ELSE x

\* the intensities the AU mappings of this model carry (thousandths)
Levels == {0, 100, 200, 300, 400, 500, 600, 602, 700, 900}

\* the double a 3-decimal literal or a rounded value denotes
Float(t) == [t |-> t, off |-> 0]

\* IEEE-754 double subtraction c/1000 - b/1000 over Levels: <<c, b, off>> for
\* the pairs whose difference is not the double nearest to (c - b)/1000
SubtractionOffsets ==
    { <<100, 300, 64>>, <<100, 400, -128>>,
      <<200, 300, 64>>, <<200, 600, 128>>, <<200, 602, 128>>, <<200, 700, 128>>,
      <<300, 100, -64>>, <<300, 200, -64>>, <<300, 400, -64>>, <<300, 700, 128>>,
      <<300, 900, -256>>,
      <<400, 100, 128>>, <<400, 300, 64>>, <<400, 500, 64>>, <<400, 600, 128>>,
      <<400, 602, 128>>, <<400, 700, 128>>,
      <<500, 400, -64>>, <<500, 600, 64>>, <<500, 602, 32>>, <<500, 700, 128>>,
      <<600, 200, -128>>, <<600, 400, -128>>, <<600, 500, -64>>, <<600, 602, -4>>,
      <<600, 700, 64>>, <<600, 900, -128>>,
      <<602, 200, -128>>, <<602, 400, -128>>, <<602, 500, -32>>, <<602, 600, 4>>,
      <<602, 700, 64>>, <<602, 900, -128>>,
      <<700, 200, -128>>, <<700, 300, -128>>, <<700, 400, -128>>, <<700, 500, -128>>,
      <<700, 600, -64>>, <<700, 602, -64>>, <<700, 900, -128>>,
      <<900, 300, 256>>, <<900, 600, 128>>, <<900, 602, 128>>, <<900, 700, 128>> }

\* current_intensity - baseline_intensity
fsub(c, b) ==
    [ t |-> c - b,
      off |-> IF \E e \in SubtractionOffsets : e[1] = c /\ e[2] = b
              THEN (CHOOSE e \in SubtractionOffsets : e[1] = c /\ e[2] = b)[3]
              ELSE 0 ]

\* abs(x)
fabs(x) == IF x.t < 0 THEN [t |-> -x.t, off |-> -x.off] ELSE x

\* x < y
flt(x, y) == x.t < y.t \/ (x.t = y.t /\ x.off < y.off)

\* round(x, 3), in thousandths
round3(x) == x.t

\* round(x, 2) of a non-negative x given in ten-thousandths, in thousandths
\* (no value rounded in this model lies halfway between two hundredths)
round2(x) == ((x + 50) \div 100) * 10

\* classification by the signed delta
classify_change_signed(delta) ==
    IF flt(delta, Float(100)) THEN "minimal"
    ELSE IF flt(delta, Float(300)) THEN "moderate"
    ELSE IF flt(delta, Float(500)) THEN "significant"
    ELSE "major"

\* _classify_change, called with the unrounded delta
classify_change(delta) ==
    IF flt(fabs(delta), Float(100)) THEN "minimal"
    ELSE IF flt(fabs(delta), Float(300)) THEN "moderate"
    ELSE IF flt(fabs(delta), Float(500)) THEN "significant"
    ELSE "major"

\* aus.get(au_code, {}).get('intensity', 0.0)
intensity_of(aus, au_code) == Get(Get(aus, au_code, <<>>), "intensity", 0)

\* current_aus.get(au_code, {}).get('description',
\*     baseline_aus.get(au_code, {}).get('description', 'Unknown AU'))
description_of(baseline_aus, current_aus, au_code) ==
    Get(Get(current_aus, au_code, <<>>), "description",
        Get(Get(baseline_aus, au_code, <<>>), "description", "Unknown AU"))

\* the AU codes of the current record only
all_aus_current_only(baseline_aus, current_aus) == DOMAIN current_aus

\* all_aus = set(baseline_aus.keys()) | set(current_aus.keys())
all_aus(baseline_aus, current_aus) == DOMAIN baseline_aus \cup DOMAIN current_aus

\* the orders in which "for au_code in all_aus" can visit a set of strings:
\* the sequences that hold every member once
RECURSIVE IterationOrders(_)
IterationOrders(S) ==
    IF S = {} THEN { << >> }
    ELSE UNION { { <<x>> \o o : o \in IterationOrders(S \ {x}) } : x \in S }

\* the deltas dict the loop of calculate_delta builds
deltas_of(baseline_aus, current_aus) ==
    [ au_code \in all_aus(baseline_aus, current_aus) |->
        LET baseline_intensity == intensity_of(baseline_aus, au_code)
            current_intensity == intensity_of(current_aus, au_code)
            delta == fsub(current_intensity, baseline_intensity)
        IN  [ delta |-> round3(delta),
              baseline |-> baseline_intensity,
              current |-> current_intensity,
              description |-> description_of(baseline_aus, current_aus, au_code),
              change_type |-> classify_change(delta) ] ]

\* significant_changes.sort(key=lambda x: abs(x['delta']), reverse=True):
\* a stable sort, entries of equal magnitude stay in the order of appending
sort_by_magnitude(entries) ==
    LET n == Len(entries)
        mag(i) == fabs(entries[i].delta)
        before(i, j) == flt(mag(j), mag(i)) \/ (mag(i) = mag(j) /\ i < j)
        rank(i) == Cardinality({ j \in 1..n : before(j, i) }) + 1
    IN  [ k \in 1..n |-> entries[CHOOSE i \in 1..n : rank(i) = k] ]

\* the test for a significant change, made on the rounded delta and inclusive
is_significant_rounded_inclusive(delta) == Abs(round3(delta)) >= 200

\* if abs(delta) > 0.2, with the unrounded delta
is_significant(delta) == flt(Float(200), fabs(delta))

\* the significant_changes list calculate_delta returns, the loop visiting
\* the AU codes in the given order
significant_changes_of(baseline_aus, current_aus, order) ==
    LET delta(au_code) ==
            fsub(intensity_of(current_aus, au_code), intensity_of(baseline_aus, au_code))
        appended == SelectSeq(order, LAMBDA au_code : is_significant(delta(au_code)))
    IN  sort_by_magnitude(
          [ i \in 1..Len(appended) |->
              [ au |-> appended[i],
                delta |-> delta(appended[i]),
                description |-> description_of(baseline_aus, current_aus, appended[i]),
                change_type |-> classify_change(delta(appended[i])) ] ])

\* the first argument, whatever the second
Max_first(a, b) == a

\* max(a, b)
Max(a, b) == IF a >= b THEN a ELSE b

\* movement patterns decided on the current intensities instead of the deltas
detect_movement_patterns_raw(deltas) ==
    LET d(au_code) == Get(Get(deltas, au_code, <<>>), "current", 0)
        smile == IF d("AU12") > 300
                 THEN IF d("AU06") > 200
                      THEN << [ pattern |-> "Duchenne Smile Development",
                                intensity |-> round2((d("AU12") + d("AU06")) * 5) ] >>
                      ELSE << [ pattern |-> "Social Smile Development",
                                intensity |-> d("AU12") ] >>
                 ELSE << >>
        frown == IF d("AU15") > 300 \/ d("AU04") > 300
                 THEN << [ pattern |-> "Frown Development",
                           intensity |-> Max(d("AU15"), d("AU04")) ] >>
                 ELSE << >>
        brow == IF d("AU01") > 200 /\ d("AU02") > 200
                THEN << [ pattern |-> "Brow Flash",
                          intensity |-> round2((d("AU01") + d("AU02")) * 5) ] >>
                ELSE << >>
    IN  smile \o frown \o brow

\* _detect_movement_patterns: the patterns list (pattern name and intensity
\* in thousandths; the fixed description text of a pattern is left out)
detect_movement_patterns(deltas) ==
    LET d(au_code) == Get(Get(deltas, au_code, <<>>), "delta", 0)
        smile == IF d("AU12") > 300
                 THEN IF d("AU06") > 200
                      THEN << [ pattern |-> "Duchenne Smile Development",
                                intensity |-> round2((d("AU12") + d("AU06")) * 5) ] >>
                      ELSE << [ pattern |-> "Social Smile Development",
                                intensity |-> d("AU12") ] >>
                 ELSE << >>
        frown == IF d("AU15") > 300 \/ d("AU04") > 300
                 THEN << [ pattern |-> "Frown Development",
                           intensity |-> Max(d("AU15"), d("AU04")) ] >>
                 ELSE << >>
        brow == IF d("AU01") > 200 /\ d("AU02") > 200
                THEN << [ pattern |-> "Brow Flash",
                          intensity |-> round2((d("AU01") + d("AU02")) * 5) ] >>
                ELSE << >>
    IN  smile \o frown \o brow

RECURSIVE SumOver(_, _)
\* sum(f[x] for x in S)
SumOver(f, S) ==
    IF S = {} THEN 0
    ELSE LET x == CHOOSE y \in S : TRUE IN f[x] + SumOver(f, S \ {x})

\* round(sum(abs(d['delta']) for d in deltas.values()), 2), in thousandths
total_movement_of(deltas) ==
    round2(10 * SumOver([au_code \in DOMAIN deltas |-> Abs(deltas[au_code].delta)],
                        DOMAIN deltas))

\* the AU codes the loop of calculate_delta visits for a record (none when
\* the call returns before the loop)
visited_aus(facs_result) ==
    IF Truthy(current_baseline) /\ is_valid_facs_result(facs_result)
    THEN all_aus(current_baseline.action_units, Get(facs_result, "action_units", EmptyAUs))
    ELSE {}

\* the dict calculate_delta builds in its try block from the action units of
\* the baseline (line 125), self.baseline_timestamp (line 167) and the
\* person_id of the baseline (line 168)
delta_record(baseline_aus, timestamp, person_id, facs_result, order) ==
    LET current_aus == Get(facs_result, "action_units", EmptyAUs)
        deltas == deltas_of(baseline_aus, current_aus)
    IN  [ has_baseline |-> TRUE,
          baseline_timestamp |-> timestamp,
          baseline_person |-> person_id,
          deltas |-> deltas,
          significant_changes |->
              significant_changes_of(baseline_aus, current_aus, order),
          movement_patterns |-> detect_movement_patterns(deltas),
          total_movement |-> total_movement_of(deltas),
          analysis_type |-> "baseline_delta" ]

\* calculate_delta with the "no baseline" test left out: the lookup in None
\* raises inside the try block and is reported as a failed calculation
calculate_delta_unguarded(facs_result, order) ==
    IF ~is_valid_facs_result(facs_result)
    THEN [error |-> "Invalid FACS result", has_baseline |-> TRUE]
    ELSE [error |-> "Delta calculation failed", has_baseline |-> TRUE]

\* the value calculate_delta returns when its loop visits the AU codes in
\* the given order
calculate_delta(facs_result, order) ==
    IF ~Truthy(current_baseline)
    THEN [error |-> "No baseline set", has_baseline |-> FALSE]
    ELSE IF ~is_valid_facs_result(facs_result)
    THEN [error |-> "Invalid FACS result", has_baseline |-> TRUE]
    ELSE
      delta_record(current_baseline.action_units, baseline_timestamp,
                   current_baseline.person_id, facs_result, order)

----------------------------------------------------------------------------
(* Calibration store operations.  Writing the durable record can fail     *)
(* (open raises: the file is untouched; json.dump raises after open       *)
(* truncated the file: a partial document is left).  Reading and removing *)
(* an existing file succeed.                                              *)

WriteOutcomes == {"ok", "open_fails", "dump_fails"}

\* history: the call before this one was the same set_baseline call and succeeded
Again(facs_result, person_id) ==
    /\ call.op = "set"
    /\ call.person = person_id
    /\ call.rec = facs_result
    /\ call.ret = TRUE

SetBaseline(facs_result, person_id) ==
    IF ~is_valid_facs_result(facs_result)
    THEN /\ call' = [op |-> "set", person |-> person_id, rec |-> facs_result, ret |-> FALSE,
                     again |-> Again(facs_result, person_id)]
         /\ UNCHANGED <<current_baseline, baseline_timestamp, files, clock, written>>
    ELSE \E io \in WriteOutcomes :
           LET data == baseline_data(facs_result, person_id, clock)
               f == baseline_file(person_id)
           IN  /\ current_baseline' = data
               /\ baseline_timestamp' = data.timestamp
               /\ files' = CASE io = "ok" -> [files EXCEPT ![f] = write_document(f, data)]
                             [] io = "open_fails" -> files
                             [] io = "dump_fails" -> [files EXCEPT ![f] = CorruptFile]
               /\ written' = CASE io = "ok" -> [written EXCEPT ![person_id] = data]
                               [] io = "open_fails" -> written
                               [] io = "dump_fails" -> [written EXCEPT ![person_id] = None]
               /\ call' = [op |-> "set", person |-> person_id, rec |-> facs_result,
                           ret |-> (io = "ok"), again |-> Again(facs_result, person_id)]
               /\ UNCHANGED clock

\* load_baseline that drops the active baseline when it finds no file
LoadBaseline_resetting(person_id) ==
    LET f == baseline_file(person_id) IN
    IF ~exists(f) \/ files[f].state = "corrupt"
    THEN /\ call' = [op |-> "load", person |-> person_id, ret |-> FALSE]
         /\ current_baseline' = None
         /\ baseline_timestamp' = None
         /\ UNCHANGED <<files, clock, written>>
    ELSE LET loaded == json_load(files[f]) IN
         /\ current_baseline' = loaded
         /\ baseline_timestamp' =
              IF "timestamp" \in DOMAIN loaded THEN loaded.timestamp ELSE baseline_timestamp
         /\ call' = [op |-> "load", person |-> person_id,
                     ret |-> ("timestamp" \in DOMAIN loaded)]
         /\ UNCHANGED <<files, clock, written>>

LoadBaseline(person_id) ==
    LET f == baseline_file(person_id) IN
    IF ~exists(f) \/ files[f].state = "corrupt"
    THEN \* no file, or json.load raises before the assignment
         /\ call' = [op |-> "load", person |-> person_id, ret |-> FALSE]
         /\ UNCHANGED <<current_baseline, baseline_timestamp, files, clock, written>>
    ELSE LET loaded == json_load(files[f]) IN
         /\ current_baseline' = loaded
         /\ baseline_timestamp' =
              IF "timestamp" \in DOMAIN loaded THEN loaded.timestamp ELSE baseline_timestamp
         /\ call' = [op |-> "load", person |-> person_id,
                     ret |-> ("timestamp" \in DOMAIN loaded)]
         /\ UNCHANGED <<files, clock, written>>

\* clear_baseline that drops the baseline but keeps its timestamp
ClearBaseline_keeping_timestamp(person_id) ==
    LET f == baseline_file(person_id) IN
    /\ current_baseline' = None
    /\ baseline_timestamp' = baseline_timestamp
    /\ files' = [files EXCEPT ![f] = NoFile]
    /\ written' = [written EXCEPT ![person_id] = None]
    /\ call' = [op |-> "clear", person |-> person_id, ret |-> TRUE]
    /\ UNCHANGED clock

ClearBaseline(person_id) ==
    LET f == baseline_file(person_id) IN
    /\ current_baseline' = None
    /\ baseline_timestamp' = None
    /\ files' = [files EXCEPT ![f] = NoFile]
    /\ written' = [written EXCEPT ![person_id] = None]
    /\ call' = [op |-> "clear", person |-> person_id, ret |-> TRUE]
    /\ UNCHANGED clock

CalculateDelta(facs_result) ==
    /\ \E order \in IterationOrders(visited_aus(facs_result)) :
         call' = [ op |-> "delta", rec |-> facs_result,
                   result |-> calculate_delta(facs_result, order) ]
    /\ UNCHANGED <<current_baseline, baseline_timestamp, files, clock, written>>

\* the dict get_baseline_info builds from the values it reads, one after the
\* other, from self.current_baseline and from the clock
info_record(person_id, timestamp, total_aus, analyzer, age_minutes) ==
    [ person_id |-> person_id,
      timestamp |-> timestamp,
      total_aus |-> total_aus,
      analyzer |-> analyzer,
      age_minutes |-> age_minutes ]

\* what get_baseline_info returns for the baseline it finds, at time now
baseline_info(baseline, now) ==
    IF ~Truthy(baseline) THEN None
    ELSE info_record(baseline.person_id, baseline.timestamp, baseline.total_aus_detected,
                     baseline.analyzer, now - fromisoformat(baseline.timestamp))

GetBaselineInfo ==
    /\ call' = [op |-> "info", result |-> baseline_info(current_baseline, clock)]
    /\ UNCHANGED <<current_baseline, baseline_timestamp, files, clock, written>>

\* time passes between calls
Tick ==
    /\ clock < MaxClock
    /\ clock' = clock + 1
    /\ UNCHANGED <<current_baseline, baseline_timestamp, files, call, written>>

\* names of the transient copies DeepFaceDetector.detect can create in one
\* process: deepface_temp_{pid}_{hash(image_path) % 10000}.jpg, by the hash
TempNames == {1, 2}

NoImage == [state |-> "absent"]

\* no transient copy exists
NoTempFiles == [n \in TempNames |-> NoImage]

\* the adapters whose last record is remembered
EmotionAdapters == {"FER", "DeepFace"}

\* no adapter has returned yet
NoneDetected == [a \in EmotionAdapters |-> None]

\* the threads that serve requests concurrently (Flask's development server
\* handles each request in a thread of its own)
ThreadIds == {1, 2}

Idle == [pc |-> "idle"]

\* no call is in progress
NoThreads == [t \in ThreadIds |-> Idle]

----------------------------------------------------------------------------
(* Specification of the calibration store *)

Init ==
    /\ current_baseline = None
    /\ baseline_timestamp = None
    /\ files = [f \in {baseline_file(p) : p \in Persons} |-> NoFile]
    /\ clock = 0
    /\ call = [op |-> "none"]
    /\ written = [p \in Persons |-> None]
    /\ pc = "idle"
    /\ backends = <<>>
    /\ idx = 0
    /\ returned = <<>>
    /\ results = <<>>
    /\ successful_results = <<>>
    /\ outcome = "none"
    /\ temp_dir = NoTempFiles
    /\ detected = NoneDetected
    /\ threads = NoThreads

Next ==
    \/ \E r \in FacsInputs, p \in Persons : SetBaseline(r, p) /\ UNCHANGED <<ensembleVars, adapterVars>>
    \/ \E p \in Persons : LoadBaseline(p) /\ UNCHANGED <<ensembleVars, adapterVars>>
    \/ \E p \in Persons : ClearBaseline(p) /\ UNCHANGED <<ensembleVars, adapterVars>>
    \/ \E r \in FacsInputs : CalculateDelta(r) /\ UNCHANGED <<ensembleVars, adapterVars>>
    \/ GetBaselineInfo /\ UNCHANGED <<ensembleVars, adapterVars>>
    \/ Tick /\ UNCHANGED <<ensembleVars, adapterVars>>

Spec == Init /\ [][Next]_vars

----------------------------------------------------------------------------
(* Detector registry and adapter results *)

\* names a caller may request: registry names, a registry name in another
\* case, and a name the registry does not know
BackendNames == {"fer", "FER", "deepface", "facs", "simplefacs", "bogus"}

\* str.lower() on the names above
lower(name) == IF name = "FER" THEN "fer" ELSE name

\* keys of the detectors dict of get_detector
Registry == {"fer", "deepface", "facs", "simplefacs"}

\* get_detector that falls back to the FER detector for a name it does not know
get_detector_fallback(backend_name) ==
    IF lower(backend_name) \notin Registry
    THEN [raised |-> FALSE, detector |-> "fer"]
    ELSE [raised |-> FALSE, detector |-> lower(backend_name)]

\* get_detector: the detector class chosen for a name, or ValueError
get_detector(backend_name) ==
    IF lower(backend_name) \notin Registry
    THEN [raised |-> TRUE, error |-> <<"Unknown backend", backend_name>>]
    ELSE [raised |-> FALSE, detector |-> lower(backend_name)]

EmotionLabels ==
    {"anger", "disgust", "fear", "sadness", "neutral", "surprise", "happiness"}

\* insertion order of the normalized_emotions dict of FERDetector.detect
FEROrder ==
    <<"anger", "disgust", "fear", "sadness", "neutral", "surprise", "happiness">>

\* key order of the emotion dict DeepFace returns, after renaming
DeepFaceOrder ==
    <<"anger", "disgust", "fear", "happiness", "sadness", "surprise", "neutral">>

\* the first key of the dict, whatever its value
dominant_of_first(order, emotions) == order[1]

\* max(d, key=d.get) over a dict with the given key order: the first key
\* that carries the highest value
dominant_of(order, emotions) ==
    LET best == CHOOSE i \in 1..Len(order) :
                  /\ \A j \in 1..Len(order) : emotions[order[j]] <= emotions[order[i]]
                  /\ \A j \in 1..(i - 1) : emotions[order[j]] < emotions[order[i]]
    IN  order[best]

Scores(h, s, n) ==
    [ e \in EmotionLabels |->
        IF e = "happiness" THEN h
        ELSE IF e = "sadness" THEN s
        ELSE IF e = "neutral" THEN n
        ELSE 0 ]

\* normalized score mappings of a detected face (hundredths)
NormalizedScores ==
    { Scores(80, 10, 10), Scores(75, 5, 20), Scores(10, 70, 20), Scores(10, 20, 70) }

\* the record an emotion adapter returns for a detected face
EmotionSuccess(backend, order, emotions) ==
    [ emotions |-> emotions,
      dominant_emotion |-> dominant_of(order, emotions),
      backend |-> backend,
      confidence_score |-> emotions[dominant_of(order, emotions)],
      face_detected |-> TRUE ]

\* the record an emotion adapter returns on failure / no face
EmotionError(backend) ==
    [ error |-> <<"No face detected">>, backend |-> backend, face_detected |-> FALSE ]

Raises(e) == [kind |-> "raise", error |-> e]
Returns(r) == [kind |-> "return", result |-> r]

\* what constructing a detector and calling its analyze (the FACS analyzers)
\* or its detect (the emotion detectors) can do:
\* FERDetector() imports and builds the model and may raise; the other
\* constructors are lazy, and detect / analyze catch what the model raises
AdapterOutcomes(detector) ==
    CASE detector = "fer" ->
           { Raises(<<"ImportError">>), Returns(EmotionError("FER")) }
           \cup { Returns(EmotionSuccess("FER", FEROrder, m)) : m \in NormalizedScores }
      [] detector = "deepface" ->
           { Returns(EmotionError("DeepFace")) }
           \cup { Returns(EmotionSuccess("DeepFace", DeepFaceOrder, m)) : m \in NormalizedScores }
      [] detector = "facs" ->
           { Returns(FacsError("FACS")) }
           \cup { Returns(FacsSuccess(m, "FACS")) : m \in AUMaps }
      [] detector = "simplefacs" ->
           { Returns(FacsError("SimpleFACS")) }
           \cup { Returns(FacsSuccess(m, "SimpleFACS")) : m \in AUMaps \ {EmptyAUs} }

----------------------------------------------------------------------------
(* Ensemble aggregator.  An insertion-ordered dict whose order matters is  *)
(* a sequence of <<key, value>> pairs.                                     *)

OKeys(d) == [i \in 1..Len(d) |-> d[i][1]]
OValues(d) == [i \in 1..Len(d) |-> d[i][2]]
OSet(d, k, v) ==
    IF \E i \in 1..Len(d) : d[i][1] = k
    THEN [i \in 1..Len(d) |-> IF d[i][1] = k THEN <<k, v>> ELSE d[i]]
    ELSE Append(d, <<k, v>>)
Range(seq) == { seq[i] : i \in 1..Len(seq) }

\* the test that admits a result to successful_results, without the tests
\* for an error and for a detected face
qualifies_any_emotion(result) ==
    Get(result, "analysis_type", "absent") # "pure_facs"

\* the test that admits a result to successful_results, without the test
\* for pure FACS data
qualifies_with_facs(result) ==
    /\ "error" \notin DOMAIN result
    /\ Get(result, "face_detected", FALSE)

\* the test that admits a result to successful_results
qualifies(result) ==
    /\ "error" \notin DOMAIN result
    /\ Get(result, "face_detected", FALSE)
    /\ Get(result, "analysis_type", "absent") # "pure_facs"

\* the slot analyze_image_multi fills in when a backend raises
error_slot(backend_name, e) ==
    [ error |-> <<"Backend failed", backend_name, e>>,
      backend |-> backend_name,
      face_detected |-> FALSE ]

\* pearsonr(scores1, scores2) of two lists of numbers taken label by label:
\* the coefficient is a function of the paired scores, kept here as the term
\* over the pairs it is computed from (nan when a list is constant)
pearsonr(paired_scores) == [pearson_of |-> paired_scores]

\* the correlation taken over the labels of the first record, a label the
\* second record lacks counting as score 0
calculate_emotion_correlation_first_keys(emotions1, emotions2) ==
    LET common_emotions == DOMAIN emotions1 IN
    IF Cardinality(common_emotions) < 2
    THEN [correlation |-> None, common_emotions |-> Cardinality(common_emotions)]
    ELSE [ correlation |->
             pearsonr({ <<e, emotions1[e], Get(emotions2, e, 0)>> : e \in common_emotions }),
           common_emotions |-> Cardinality(common_emotions) ]

\* calculate_emotion_correlation for score lists of numbers, for which
\* pearsonr does not raise (p_value and significant, which pearsonr derives
\* from the same paired scores, are left out)
calculate_emotion_correlation(emotions1, emotions2) ==
    LET common_emotions == DOMAIN emotions1 \cap DOMAIN emotions2 IN
    IF Cardinality(common_emotions) < 2
    THEN [correlation |-> None, common_emotions |-> Cardinality(common_emotions)]
    ELSE [ correlation |->
             pearsonr({ <<e, emotions1[e], emotions2[e]>> : e \in common_emotions }),
           common_emotions |-> Cardinality(common_emotions) ]

\* all_dominants of compare_results
all_dominants(res) ==
    LET with == SelectSeq(OValues(res), LAMBDA r : "dominant_emotion" \in DOMAIN r)
    IN  [i \in 1..Len(with) |-> with[i].dominant_emotion]

\* the most frequent label that occurs last among the labels with the
\* highest count
most_common_last(labels) ==
    LET count(l) == Cardinality({ i \in 1..Len(labels) : labels[i] = l })
        last == CHOOSE i \in 1..Len(labels) :
                  /\ \A j \in 1..Len(labels) : count(labels[j]) <= count(labels[i])
                  /\ \A j \in (i + 1)..Len(labels) : count(labels[j]) < count(labels[i])
    IN  <<labels[last], count(labels[last])>>

\* Counter(labels).most_common(1)[0]: the first label, in order of first
\* occurrence, with the highest count
most_common(labels) ==
    LET count(l) == Cardinality({ i \in 1..Len(labels) : labels[i] = l })
        first == CHOOSE i \in 1..Len(labels) :
                   /\ \A j \in 1..Len(labels) : count(labels[j]) <= count(labels[i])
                   /\ \A j \in 1..(i - 1) : count(labels[j]) < count(labels[i])
    IN  <<labels[first], count(labels[first])>>

\* round(100 * num / den) for the ratios of small counts (no ratio falls on a half)
ratio_hundredths(num, den) == (200 * num + den) \div (2 * den)

\* the consensus with tier "medium" from half of the participants on
consensus_of_half_is_medium(labels) ==
    IF Len(labels) > 0 /\ Cardinality(Range(labels)) = 1
    THEN [emotion |-> labels[1], unanimous |-> TRUE, confidence |-> "high"]
    ELSE IF Len(labels) > 0
    THEN [ emotion |-> most_common(labels)[1],
           unanimous |-> FALSE,
           confidence |-> IF 2 * most_common(labels)[2] >= Len(labels)
                          THEN "medium" ELSE "low",
           agreement_ratio |-> ratio_hundredths(most_common(labels)[2], Len(labels)) ]
    ELSE None

\* the consensus entry of compare_results
consensus_of(labels) ==
    IF Len(labels) > 0 /\ Cardinality(Range(labels)) = 1
    THEN [emotion |-> labels[1], unanimous |-> TRUE, confidence |-> "high"]
    ELSE IF Len(labels) > 0
    THEN [ emotion |-> most_common(labels)[1],
           unanimous |-> FALSE,
           confidence |-> IF 2 * most_common(labels)[2] > Len(labels)
                          THEN "medium" ELSE "low",
           agreement_ratio |-> ratio_hundredths(most_common(labels)[2], Len(labels)) ]
    ELSE None

\* the positions compared when every backend is also paired with itself
compared_pairs_with_self(n) == { ij \in (1..n) \X (1..n) : ij[1] <= ij[2] }

\* for i, backend1 in enumerate(backend_names): for backend2 in
\* backend_names[i+1:]: the pairs of positions in backend_names compared
compared_pairs(n) == { ij \in (1..n) \X (1..n) : ij[1] < ij[2] }

\* compare_results(results), called with two results or more
compare_results(res) ==
    LET backend_names == OKeys(res)
        ordered == compared_pairs(Len(res))
        key(ij) == <<backend_names[ij[1]], backend_names[ij[2]]>>
        r1(ij) == res[ij[1]][2]
        r2(ij) == res[ij[2]][2]
        d1(ij) == Get(r1(ij), "dominant_emotion", "None")
        d2(ij) == Get(r2(ij), "dominant_emotion", "None")
        both(ij) == /\ Get(r1(ij), "emotions", <<>>) # <<>>
                    /\ Get(r2(ij), "emotions", <<>>) # <<>>
    IN  [ backends_compared |-> backend_names,
          agreements |->
            { [ pair |-> key(ij),
                dominant_agreement |-> (d1(ij) # "None" /\ d2(ij) # "None" /\ d1(ij) = d2(ij)),
                backend1_dominant |-> d1(ij),
                backend2_dominant |-> d2(ij) ] : ij \in ordered },
          correlations |->
            { [ pair |-> key(ij),
                value |-> calculate_emotion_correlation(r1(ij).emotions, r2(ij).emotions) ] :
              ij \in { x \in ordered : both(x) } },
          confidence_differences |->
            { [ pair |-> key(ij),
                value |-> Abs(Get(r1(ij), "confidence_score", 0)
                              - Get(r2(ij), "confidence_score", 0)) ] :
              ij \in { x \in ordered : both(x) } },
          consensus |-> consensus_of(all_dominants(res)) ]

\* lists of distinct backend names (the caller passes a set of names)
BackendLists ==
    { l \in UNION { [1..n -> BackendNames] : n \in 1..MaxBackends } :
        \A i, j \in 1..Len(l) : i # j => l[i] # l[j] }

\* analyze_image_multi is called
Start(requested) ==
    /\ pc = "idle"
    /\ pc' = "loop"
    /\ backends' = requested
    /\ idx' = 1
    /\ results' = <<>>
    /\ successful_results' = <<>>
    /\ returned' = <<>>
    /\ outcome' = "running"

\* one pass of the loop over backends: the body of the try block, or the
\* except clause when get_detector or the constructor raises
AnalyzeStep ==
    /\ pc = "loop"
    /\ idx <= Len(backends)
    /\ LET backend_name == backends[idx]
           got == get_detector(backend_name)
       IN  IF got.raised
           THEN /\ results' = DictSet(results, backend_name,
                                      error_slot(backend_name, got.error))
                /\ returned' = DictSet(returned, backend_name, Raises(got.error))
                /\ UNCHANGED successful_results
           ELSE \E o \in AdapterOutcomes(got.detector) :
                  /\ returned' = DictSet(returned, backend_name, o)
                  /\ IF o.kind = "raise"
                     THEN /\ results' = DictSet(results, backend_name,
                                                error_slot(backend_name, o.error))
                          /\ UNCHANGED successful_results
                     ELSE /\ results' = DictSet(results, backend_name, o.result)
                          /\ successful_results' =
                               IF qualifies(o.result)
                               THEN OSet(successful_results, backend_name, o.result)
                               ELSE successful_results
    /\ idx' = idx + 1
    /\ UNCHANGED <<pc, backends, outcome>>

\* after the loop: the comparison, the meta information, and the return
Finish ==
    /\ pc = "loop"
    /\ idx > Len(backends)
    /\ LET compared == IF Len(successful_results) >= 2
                       THEN DictSet(results, "comparison",
                                    compare_results(successful_results))
                       ELSE results
       IN  results' = DictSet(compared, "meta",
                        [ backends_requested |-> backends,
                          backends_successful |-> OKeys(successful_results),
                          total_backends |-> Len(backends),
                          successful_backends |-> Len(successful_results) ])
    /\ pc' = "done"
    /\ outcome' = "returned"
    /\ UNCHANGED <<backends, idx, returned, successful_results>>

NextEnsemble ==
    \/ \E requested \in BackendLists : Start(requested) /\ UNCHANGED <<storeVars, adapterVars>>
    \/ AnalyzeStep /\ UNCHANGED <<storeVars, adapterVars>>
    \/ Finish /\ UNCHANGED <<storeVars, adapterVars>>

SpecEnsemble == Init /\ [][NextEnsemble]_vars

----------------------------------------------------------------------------
(* Specification of the delta engine: calculate_delta applied to a record  *)
(* while the baseline of an earlier successful set_baseline call is active *)

\* an action_units mapping with the given intensities
AUs(intensities) == [a \in DOMAIN intensities |-> [intensity |-> intensities[a]]]

\* action_units mappings handed to set_baseline and to calculate_delta
DeltaAUMaps ==
    { EmptyAUs,
      AUs("AU12" :> 200),
      AUs("AU12" :> 400),
      AUs("AU12" :> 500),
      AUs("AU12" :> 600),
      AUs("AU12" :> 700),
      AUs("AU12" :> 900),
      AUs("AU06" :> 100 @@ "AU12" :> 200),
      AUs("AU06" :> 300 @@ "AU12" :> 600),
      AUs("AU06" :> 400 @@ "AU12" :> 602),
      AUs("AU06" :> 500 @@ "AU12" :> 600),
      AUs("AU04" :> 200),
      AUs("AU15" :> 600),
      AUs("AU04" :> 500 @@ "AU15" :> 600),
      AUs("AU01" :> 200 @@ "AU02" :> 300),
      AUs("AU01" :> 500 @@ "AU02" :> 500),
      AUs("AU02" :> 500 @@ "AU04" :> 500 @@ "AU12" :> 600) }

DeltaRecords == { FacsSuccess(m, "FACS") : m \in DeltaAUMaps }

\* the store after set_baseline(r, "default") succeeded at time 0
InitDelta ==
    /\ \E r \in DeltaRecords :
         LET data == baseline_data(r, "default", 0) IN
         /\ current_baseline = data
         /\ baseline_timestamp = data.timestamp
         /\ files = [ f \in {baseline_file(p) : p \in Persons} |->
                        IF f = baseline_file("default") THEN json_dump(data) ELSE NoFile ]
         /\ written = [ p \in Persons |-> IF p = "default" THEN data ELSE None ]
         /\ call = [ op |-> "set", person |-> "default", rec |-> r, ret |-> TRUE,
                     again |-> FALSE ]
    /\ clock = 0
    /\ pc = "idle"
    /\ backends = <<>>
    /\ idx = 0
    /\ returned = <<>>
    /\ results = <<>>
    /\ successful_results = <<>>
    /\ outcome = "none"
    /\ temp_dir = NoTempFiles
    /\ detected = NoneDetected
    /\ threads = NoThreads

NextDelta ==
    \E r \in DeltaRecords : CalculateDelta(r) /\ UNCHANGED <<ensembleVars, adapterVars>>

SpecDelta == InitDelta /\ [][NextDelta]_vars

----------------------------------------------------------------------------
(* FACS combination detection of the two AU adapters (pattern name, AU     *)
(* codes and intensity in thousandths; the description text is left out)   *)

\* the Pan Am test also made when both AUs are present and the Duchenne
\* thresholds are not met
detect_facs_combinations_fallthrough(action_units) ==
    LET has(au) == au \in DOMAIN action_units
        i(au) == action_units[au].intensity
        smile == IF has("AU06") /\ has("AU12")
                 THEN IF i("AU06") > 300 /\ i("AU12") > 300
                      THEN << [ pattern |-> "Duchenne Smile",
                                aus |-> <<"AU06", "AU12">>,
                                intensity |-> round2((i("AU06") + i("AU12")) * 5) ] >>
                      ELSE IF i("AU12") > 400
                      THEN << [ pattern |-> "Pan Am Smile",
                                aus |-> <<"AU12">>,
                                intensity |-> i("AU12") ] >>
                      ELSE << >>
                 ELSE IF has("AU12") /\ ~has("AU06")
                 THEN IF i("AU12") > 400
                      THEN << [ pattern |-> "Pan Am Smile",
                                aus |-> <<"AU12">>,
                                intensity |-> i("AU12") ] >>
                      ELSE << >>
                 ELSE << >>
        brow == IF has("AU01") /\ has("AU02")
                THEN IF i("AU01") > 400 /\ i("AU02") > 400
                     THEN << [ pattern |-> "Brow Flash",
                               aus |-> <<"AU01", "AU02">>,
                               intensity |-> round2((i("AU01") + i("AU02")) * 5) ] >>
                     ELSE << >>
                ELSE << >>
        frown == IF has("AU15") /\ has("AU04")
                 THEN << [ pattern |-> "Frown Pattern",
                           aus |-> <<"AU15", "AU04">>,
                           intensity |-> round2((i("AU15") + i("AU04")) * 5) ] >>
                 ELSE << >>
    IN  smile \o brow \o frown

\* FACSDetector._detect_facs_combinations
detect_facs_combinations(action_units) ==
    LET has(au) == au \in DOMAIN action_units
        i(au) == action_units[au].intensity
        smile == IF has("AU06") /\ has("AU12")
                 THEN IF i("AU06") > 300 /\ i("AU12") > 300
                      THEN << [ pattern |-> "Duchenne Smile",
                                aus |-> <<"AU06", "AU12">>,
                                intensity |-> round2((i("AU06") + i("AU12")) * 5) ] >>
                      ELSE << >>
                 ELSE IF has("AU12") /\ ~has("AU06")
                 THEN IF i("AU12") > 400
                      THEN << [ pattern |-> "Pan Am Smile",
                                aus |-> <<"AU12">>,
                                intensity |-> i("AU12") ] >>
                      ELSE << >>
                 ELSE << >>
        brow == IF has("AU01") /\ has("AU02")
                THEN IF i("AU01") > 400 /\ i("AU02") > 400
                     THEN << [ pattern |-> "Brow Flash",
                               aus |-> <<"AU01", "AU02">>,
                               intensity |-> round2((i("AU01") + i("AU02")) * 5) ] >>
                     ELSE << >>
                ELSE << >>
        frown == IF has("AU15") /\ has("AU04")
                 THEN << [ pattern |-> "Frown Pattern",
                           aus |-> <<"AU15", "AU04">>,
                           intensity |-> round2((i("AU15") + i("AU04")) * 5) ] >>
                 ELSE << >>
    IN  smile \o brow \o frown

\* SimpleFACSDetector._detect_facs_combinations
simple_detect_facs_combinations(action_units) ==
    LET has(au) == au \in DOMAIN action_units
        i(au) == action_units[au].intensity
        smile == IF has("AU06") /\ has("AU12")
                 THEN IF i("AU06") > 300 /\ i("AU12") > 300
                      THEN << [ pattern |-> "Duchenne Smile",
                                aus |-> <<"AU06", "AU12">>,
                                intensity |-> round2((i("AU06") + i("AU12")) * 5) ] >>
                      ELSE << >>
                 ELSE IF has("AU12") /\ ~has("AU06")
                 THEN IF i("AU12") > 400
                      THEN << [ pattern |-> "Pan Am Smile",
                                aus |-> <<"AU12">>,
                                intensity |-> i("AU12") ] >>
                      ELSE << >>
                 ELSE << >>
        brow == IF has("AU01") /\ has("AU02")
                THEN IF i("AU01") > 400 /\ i("AU02") > 400
                     THEN << [ pattern |-> "Brow Flash",
                               aus |-> <<"AU01", "AU02">>,
                               intensity |-> round2((i("AU01") + i("AU02")) * 5) ] >>
                     ELSE << >>
                ELSE << >>
        frown == IF has("AU15") /\ has("AU04")
                 THEN << [ pattern |-> "Frown Pattern",
                           aus |-> <<"AU15", "AU04">>,
                           intensity |-> round2((i("AU15") + i("AU04")) * 5) ] >>
                 ELSE << >>
    IN  smile \o brow \o frown

\* AU codes the combinations look at, with the intensities drawn for each
\* (0 stands for a code that is absent from the mapping)
CombinationOptions ==
    [ AU06 |-> {0, 300, 400}, AU12 |-> {0, 300, 400, 500},
      AU01 |-> {0, 400, 500}, AU02 |-> {0, 400, 500},
      AU15 |-> {0, 200}, AU04 |-> {0, 200} ]

\* the action_units mappings handed to the combination detection
CombinationAUMaps ==
    { AUs([a \in { x \in DOMAIN c : c[x] # 0 } |-> c[a]]) :
        c \in { f \in [DOMAIN CombinationOptions -> {0, 200, 300, 400, 500}] :
                  \A a \in DOMAIN CombinationOptions : f[a] \in CombinationOptions[a] } }

----------------------------------------------------------------------------
(* Specification of the functions that read no state: each call is applied *)
(* to arguments drawn from a bounded set, and `call` records it            *)

\* the floats calculate_delta hands to _classify_change
Deltas == { fsub(c, b) : c, b \in Levels }

ClassifyChange(delta) ==
    /\ call' = [op |-> "classify", delta |-> delta, label |-> classify_change(delta)]
    /\ UNCHANGED <<current_baseline, baseline_timestamp, files, clock, written>>
    /\ UNCHANGED <<ensembleVars, adapterVars>>

\* score mappings over part of the labels, as a caller of
\* calculate_emotion_correlation can pass them (hundredths)
CorrelationInputs ==
    UNION { [S -> {10, 80}] : S \in SUBSET {"happiness", "sadness", "neutral"} }

Correlate(emotions1, emotions2) ==
    /\ call' = [ op |-> "correlation", emotions1 |-> emotions1, emotions2 |-> emotions2,
                 out |-> calculate_emotion_correlation(emotions1, emotions2) ]
    /\ UNCHANGED <<current_baseline, baseline_timestamp, files, clock, written>>
    /\ UNCHANGED <<ensembleVars, adapterVars>>

\* both AU adapters look for combinations in the same action_units mapping
DetectCombinations(action_units) ==
    /\ call' = [ op |-> "combinations", aus |-> action_units,
                 facs |-> detect_facs_combinations(action_units),
                 simplefacs |-> simple_detect_facs_combinations(action_units) ]
    /\ UNCHANGED <<current_baseline, baseline_timestamp, files, clock, written>>
    /\ UNCHANGED <<ensembleVars, adapterVars>>

NextFunctions ==
    \/ \E delta \in Deltas : ClassifyChange(delta)
    \/ \E action_units \in CombinationAUMaps : DetectCombinations(action_units)
    \/ \E emotions1, emotions2 \in CorrelationInputs : Correlate(emotions1, emotions2)

SpecFunctions == Init /\ [][NextFunctions]_vars

----------------------------------------------------------------------------
(* Properties of the calibration store, checked under Spec *)

StoredDocuments == { f \in DOMAIN files : files[f].state = "document" }

\* C1: whenever no baseline is active, calculate_delta of any record returns a
\* dict with has_baseline = False (it does not raise) and changes nothing in
\* the store.
C1_NoBaselineDelta ==
    [][ \A r \in FacsInputs :
          (~Truthy(current_baseline) /\ CalculateDelta(r))
          => /\ IsDict(call'.result)
             /\ "has_baseline" \in DOMAIN call'.result
             /\ call'.result.has_baseline = FALSE
             /\ UNCHANGED <<current_baseline, baseline_timestamp, files>> ]_vars

\* a valid record was compared while no baseline was active although a
\* durable record exists
C1_Witness ==
    /\ call.op = "delta"
    /\ is_valid_facs_result(call.rec)
    /\ ~Truthy(current_baseline)
    /\ call.result.has_baseline = FALSE
    /\ StoredDocuments # {}

\* what the specification requires of a baseline record
FaceDetected(r) == IsDict(r) /\ Get(r, "face_detected", FALSE)
EmptyActionUnits(r) ==
    ~IsDict(r) \/ "action_units" \notin DOMAIN r \/ DOMAIN r.action_units = {}
AUOrigin(r) == IsDict(r) /\ Get(r, "analysis_type", "absent") = "pure_facs"
Rejectable(r) == ~FaceDetected(r) \/ EmptyActionUnits(r) \/ ~AUOrigin(r)

\* C2: set_baseline returns False and leaves the active baseline and the
\* durable record of the person unchanged when the record has no face, empty
\* action units or no AU origin; it returns True only for a record with a
\* face, non-empty action units and AU origin.
C2_RejectsInvalidRecord ==
    [][ \A r \in FacsInputs, p \in Persons :
          SetBaseline(r, p)
          => /\ Rejectable(r)
                => /\ call'.ret = FALSE
                   /\ UNCHANGED <<current_baseline, baseline_timestamp>>
                   /\ files'[baseline_file(p)] = files[baseline_file(p)]
             /\ call'.ret = TRUE => ~Rejectable(r) ]_vars

\* C3: clear_baseline(p) removes the durable record of p, and removes the
\* active baseline only if it belongs to p: the active baseline of another
\* person stays active.
C3_ClearOnlyMatchingPerson ==
    [][ \A p \in Persons :
          ClearBaseline(p)
          => /\ ~exists(baseline_file(p))'
             /\ (Truthy(current_baseline) /\ current_baseline.person_id # p)
                => /\ current_baseline' = current_baseline
                   /\ baseline_timestamp' = baseline_timestamp
             /\ (Truthy(current_baseline) /\ current_baseline.person_id = p)
                => ~Truthy(current_baseline') ]_vars

\* a set_baseline or load_baseline call for q that returns True
SuccessfulSetOrLoad(q) ==
    /\ (\E r \in FacsInputs : SetBaseline(r, q)) \/ LoadBaseline(q)
    /\ call'.ret = TRUE

\* C4 (as claimed): a successful set_baseline or load_baseline for q leaves
\* the baseline held in memory for any other person p, and p's durable
\* record, unchanged.
C4_PerPersonMemory ==
    [][ \A q \in Persons :
          SuccessfulSetOrLoad(q)
          => \A p \in Persons \ {q} :
               /\ files'[baseline_file(p)] = files[baseline_file(p)]
               /\ (Truthy(current_baseline) /\ current_baseline.person_id = p)
                  => current_baseline' = current_baseline ]_vars

\* C4 (amended): a successful set_baseline or load_baseline for q leaves the
\* durable record of every other person unchanged and makes q's baseline the
\* one active baseline of the store, whoever owned the active baseline before.
C4_OneActiveBaseline ==
    [][ \A q \in Persons :
          SuccessfulSetOrLoad(q)
          => /\ \A p \in Persons \ {q} :
                  files'[baseline_file(p)] = files[baseline_file(p)]
             /\ Truthy(current_baseline')
             /\ current_baseline'.person_id = q
             /\ baseline_timestamp' = current_baseline'.timestamp ]_vars

\* q's baseline became active while another person has a durable record
C4_Witness ==
    /\ call.op \in {"set", "load"}
    /\ call.ret = TRUE
    /\ current_baseline.person_id = call.person
    /\ \E p \in Persons \ {call.person} :
         /\ written[p] # None
         /\ files[baseline_file(p)] = json_dump(written[p])

\* the same successful set_baseline call, twice in a row
SetTwice(r, p) == SetBaseline(r, p) /\ call'.again /\ call'.ret = TRUE

\* C5 (as claimed): the second of two set_baseline calls in a row with the
\* same valid record and person leaves the stored baseline, in memory and in
\* the durable record, as the first call left it.
C5_SetIdempotent ==
    [][ \A r \in FacsInputs, p \in Persons :
          SetTwice(r, p)
          => /\ current_baseline' = current_baseline
             /\ baseline_timestamp' = baseline_timestamp
             /\ files' = files ]_vars

SameButTimestamp(a, b) ==
    /\ DOMAIN a = DOMAIN b
    /\ \A k \in DOMAIN a \ {"timestamp"} : a[k] = b[k]

\* C5 (amended): the second call leaves person id, action units, AU count,
\* source detector and note as the first call left them, in memory and in the
\* durable record; the timestamp is the time of the second call.
C5_SetIdempotentButTimestamp ==
    [][ \A r \in FacsInputs, p \in Persons :
          SetTwice(r, p)
          => /\ SameButTimestamp(current_baseline', current_baseline)
             /\ current_baseline'.timestamp = isoformat(clock)
             /\ baseline_timestamp' = isoformat(clock)
             /\ SameButTimestamp(json_load(files'[baseline_file(p)]),
                                 json_load(files[baseline_file(p)]))
             /\ json_load(files'[baseline_file(p)]) = current_baseline'
             /\ \A f \in DOMAIN files \ {baseline_file(p)} : files'[f] = files[f] ]_vars

\* a set_baseline call was repeated at a later time and succeeded again
C5_Witness ==
    /\ call.op = "set"
    /\ call.again
    /\ call.ret = TRUE
    /\ fromisoformat(current_baseline.timestamp) > 0
    /\ DOMAIN current_baseline.action_units # {}

\* C6: once set_baseline(r, p) succeeded, and whatever was done since that
\* did not set or clear p, load_baseline(p) returns True and makes active
\* exactly the baseline that call wrote.
C6_SetLoadRoundTrip ==
    [][ \A p \in Persons :
          (LoadBaseline(p) /\ written[p] # None)
          => /\ call'.ret = TRUE
             /\ current_baseline' = written[p]
             /\ baseline_timestamp' = written[p].timestamp ]_vars

\* p's baseline was loaded back after a later baseline of another person
\* had been set
C6_Witness ==
    /\ call.op = "load"
    /\ call.ret = TRUE
    /\ current_baseline = written[call.person]
    /\ DOMAIN current_baseline.action_units # {}
    /\ \E q \in Persons \ {call.person} :
         /\ written[q] # None
         /\ fromisoformat(written[q].timestamp) > fromisoformat(current_baseline.timestamp)

\* C7: load_baseline(p) returns False and leaves the active baseline
\* unchanged when p has no durable record: never set, or cleared and not
\* successfully set since.
C7_LoadWithoutRecord ==
    [][ \A p \in Persons :
          (LoadBaseline(p) /\ (~exists(baseline_file(p)) \/ written[p] = None))
          => /\ call'.ret = FALSE
             /\ UNCHANGED <<current_baseline, baseline_timestamp>> ]_vars

\* a load for a person without durable record failed while a baseline was
\* active
C7_Witness ==
    /\ call.op = "load"
    /\ call.ret = FALSE
    /\ ~exists(baseline_file(call.person))
    /\ Truthy(current_baseline)

\* a current record calculate_delta must refuse: no detected face, no
\* action_units mapping, or not an AU record
InvalidCurrent(r) ==
    ~IsDict(r) \/ ~FaceDetected(r) \/ "action_units" \notin DOMAIN r \/ ~AUOrigin(r)

\* C19: while a baseline is active, calculate_delta of an invalid current
\* record returns a dict (it does not raise) with an error field and
\* has_baseline = True and without deltas, and leaves the active baseline
\* and the durable records unchanged.
C19_InvalidCurrentRecord ==
    [][ \A r \in FacsInputs :
          (call'.op = "delta" /\ Truthy(current_baseline) /\ InvalidCurrent(r)
             /\ CalculateDelta(r))
          => /\ IsDict(call'.result)
             /\ "error" \in DOMAIN call'.result
             /\ "has_baseline" \in DOMAIN call'.result
             /\ call'.result.has_baseline = TRUE
             /\ "deltas" \notin DOMAIN call'.result
             /\ UNCHANGED <<current_baseline, baseline_timestamp, files>> ]_vars

\* a record with action units but without a detected face was refused
\* while a baseline was active
C19_Witness ==
    /\ call.op = "delta"
    /\ call.rec = NoFaceWithAUs
    /\ Truthy(current_baseline)
    /\ "error" \in DOMAIN call.result
    /\ call.result.has_baseline = TRUE

----------------------------------------------------------------------------
(* Properties of the ensemble aggregator, checked under SpecEnsemble *)

Requested == Range(backends)

\* the adapter of a name failed: it raised (or could not be built), or it
\* returned a record without a detected face
Failed(o) == o.kind = "raise" \/ ~Get(o.result, "face_detected", FALSE)

\* the names that appear in a pairwise entry of a comparison
PairMembers(c) ==
    UNION { {a.pair[1], a.pair[2]} : a \in c.agreements }
    \cup UNION { {a.pair[1], a.pair[2]} : a \in c.correlations }
    \cup UNION { {a.pair[1], a.pair[2]} : a \in c.confidence_differences }

\* the detectors the returned mapping reports as compared
Compared ==
    Range(results.meta.backends_successful)
    \cup (IF "comparison" \in DOMAIN results
          THEN Range(results.comparison.backends_compared)
               \cup PairMembers(results.comparison)
          ELSE {})

UnknownRequested == { n \in Requested : lower(n) \notin Registry }

\* C9 (as claimed): a call of analyze_image_multi with an unknown name fails:
\* the failure propagates to its caller and no result mapping is returned.
C9_UnknownNamePropagates ==
    (pc = "done" /\ UnknownRequested # {}) => outcome = "raised"

\* C9 (amended): get_detector fails for an unknown name, to analyze_image_multi,
\* which catches the failure: the call returns its result mapping with an
\* error slot (face_detected = False) for that name, the name is not compared,
\* and the slots of the other names hold what their adapters returned.
C9_UnknownNameErrorSlot ==
    pc = "done"
    => \A n \in UnknownRequested :
         /\ outcome = "returned"
         /\ returned[n] = Raises(<<"Unknown backend", n>>)
         /\ results[n] = error_slot(n, <<"Unknown backend", n>>)
         /\ results[n].face_detected = FALSE
         /\ n \notin Compared
         /\ \A m \in Requested \ {n} :
              returned[m].kind = "return" => results[m] = returned[m].result

\* an unknown name was requested with two detectors that were compared
C9_Witness ==
    /\ pc = "done"
    /\ "bogus" \in Requested
    /\ "error" \in DOMAIN results["bogus"]
    /\ "comparison" \in DOMAIN results

\* the requested names whose adapter returned an EmotionRecord with a
\* detected face and no error
Qualifying ==
    { n \in Requested :
        /\ returned[n].kind = "return"
        /\ "emotions" \in DOMAIN returned[n].result
        /\ "error" \notin DOMAIN returned[n].result
        /\ Get(returned[n].result, "face_detected", FALSE) }

\* the requested names whose adapter returned an ActionUnitRecord
AURecords ==
    { n \in Requested :
        /\ returned[n].kind = "return"
        /\ "action_units" \in DOMAIN returned[n].result }

----------------------------------------------------------------------------
(* Properties of the delta engine, checked under SpecDelta *)

\* a calculate_delta call returned a delta analysis
DeltaReturned == call.op = "delta" /\ "deltas" \in DOMAIN call.result

\* C14: with an active baseline and a valid current record, calculate_delta
\* returns one deltas entry for every AU code of the baseline or the current
\* record and for no other code; its delta is current intensity minus
\* baseline intensity, a missing side counting as 0: negative for an AU only
\* in the baseline, positive for an AU only in the current record.
C14_DeltaOverUnion ==
    (call.op = "delta" /\ Truthy(current_baseline)
       /\ FaceDetected(call.rec) /\ AUOrigin(call.rec) /\ "action_units" \in DOMAIN call.rec)
    => /\ "deltas" \in DOMAIN call.result
       /\ LET b == current_baseline.action_units
              c == call.rec.action_units
              d == call.result.deltas
          IN  /\ DOMAIN d = DOMAIN b \cup DOMAIN c
              /\ \A au \in DOMAIN d :
                   /\ d[au].current = (IF au \in DOMAIN c THEN c[au].intensity ELSE 0)
                   /\ d[au].baseline = (IF au \in DOMAIN b THEN b[au].intensity ELSE 0)
                   /\ d[au].delta = d[au].current - d[au].baseline
                   /\ au \notin DOMAIN c => d[au].delta < 0
                   /\ au \notin DOMAIN b => d[au].delta > 0

\* a delta analysis with an AU only in the baseline and an AU only in the
\* current record
C14_Witness ==
    /\ DeltaReturned
    /\ \E au \in DOMAIN call.result.deltas :
         au \notin DOMAIN call.rec.action_units /\ call.result.deltas[au].delta < 0
    /\ \E au \in DOMAIN call.result.deltas :
         au \notin DOMAIN current_baseline.action_units /\ call.result.deltas[au].delta > 0

\* the names of the movement patterns a delta analysis reports
PatternNames(result) ==
    { result.movement_patterns[i].pattern : i \in 1..Len(result.movement_patterns) }

\* the AU codes a delta analysis lists as significant changes
SignificantAUs(result) ==
    { result.significant_changes[i].au : i \in 1..Len(result.significant_changes) }

\* the delta reported for an AU code, 0 for a code without entry
ReportedDelta(result, au) ==
    IF au \in DOMAIN result.deltas THEN result.deltas[au].delta ELSE 0

\* baseline AU12 = 0.2, current AU12 = 0.6, AU06 delta at most 0.2
RoundTripScenario ==
    /\ DeltaReturned
    /\ "AU12" \in DOMAIN current_baseline.action_units
    /\ current_baseline.action_units["AU12"].intensity = 200
    /\ "AU12" \in DOMAIN call.rec.action_units
    /\ call.rec.action_units["AU12"].intensity = 600
    /\ ReportedDelta(call.result, "AU06") <= 200

\* C16 (as claimed): in the scenario the AU12 delta is 0.4, classified
\* "major", listed among the significant changes, with the movement pattern
\* "Social Smile Development".
C16_RoundTripMajor ==
    RoundTripScenario
    => /\ call.result.deltas["AU12"].delta = 400
       /\ call.result.deltas["AU12"].change_type = "major"
       /\ "AU12" \in SignificantAUs(call.result)
       /\ "Social Smile Development" \in PatternNames(call.result)

\* C16 (amended): in the scenario the AU12 delta is 0.4, classified
\* "significant" (0.4 is below 0.5), listed among the significant changes,
\* with the movement pattern "Social Smile Development".
C16_RoundTripSignificant ==
    RoundTripScenario
    => /\ call.result.deltas["AU12"].delta = 400
       /\ call.result.deltas["AU12"].change_type = "significant"
       /\ "AU12" \in SignificantAUs(call.result)
       /\ "Social Smile Development" \in PatternNames(call.result)

\* the scenario with an AU06 delta of exactly 0.2, the cheek raised to 0.3
C16_Witness ==
    /\ RoundTripScenario
    /\ ReportedDelta(call.result, "AU06") = 200
    /\ call.rec.action_units["AU06"].intensity = 300

\* C17: significant_changes lists exactly the AU codes of the deltas map
\* with |delta| > 0.2 (a delta of exactly 0.2 is left out), each once, in
\* order of non-increasing |delta|.
C17_SignificantChanges ==
    DeltaReturned
    => LET d == call.result.deltas
           sc == call.result.significant_changes
       IN  /\ SignificantAUs(call.result) = { au \in DOMAIN d : Abs(d[au].delta) > 200 }
           /\ Len(sc) = Cardinality(SignificantAUs(call.result))
           /\ \A i, j \in 1..Len(sc) :
                i < j => Abs(d[sc[i].au].delta) >= Abs(d[sc[j].au].delta)

\* the intensities reported for a pattern name (one per entry of that name)
PatternIntensities(result, name) ==
    { result.movement_patterns[i].intensity :
        i \in { k \in 1..Len(result.movement_patterns) :
                  result.movement_patterns[k].pattern = name } }

\* which patterns a delta analysis reports, decided on the reported deltas;
\* a decrease triggers none
PatternsDecidedOnDeltas ==
    LET r == call.result
        d(au) == ReportedDelta(r, au)
    IN  /\ Len(r.movement_patterns) = Cardinality(PatternNames(r))
        /\ "Duchenne Smile Development" \in PatternNames(r)
             <=> (d("AU12") > 300 /\ d("AU06") > 200)
        /\ "Social Smile Development" \in PatternNames(r)
             <=> (d("AU12") > 300 /\ d("AU06") <= 200)
        /\ ~ ({"Duchenne Smile Development", "Social Smile Development"} \subseteq PatternNames(r))
        /\ "Frown Development" \in PatternNames(r)
             <=> (d("AU15") > 300 \/ d("AU04") > 300)
        /\ "Brow Flash" \in PatternNames(r)
             <=> (d("AU01") > 200 /\ d("AU02") > 200)
        /\ PatternNames(r) \subseteq
             { "Duchenne Smile Development", "Social Smile Development",
               "Frown Development", "Brow Flash" }
        /\ (\A au \in DOMAIN r.deltas : r.deltas[au].delta <= 0) => r.movement_patterns = << >>
        /\ PatternIntensities(r, "Social Smile Development") \subseteq {d("AU12")}
        /\ PatternIntensities(r, "Frown Development")
             \subseteq {IF d("AU15") >= d("AU04") THEN d("AU15") ELSE d("AU04")}

\* C18 (as claimed): patterns are decided on the deltas, and the intensity of
\* Duchenne Smile Development is the mean of the AU12 and AU06 deltas.
C18_PatternsMeanIntensity ==
    DeltaReturned
    => /\ PatternsDecidedOnDeltas
       /\ \A x \in PatternIntensities(call.result, "Duchenne Smile Development") :
            2 * x = ReportedDelta(call.result, "AU12") + ReportedDelta(call.result, "AU06")

\* C18 (amended): patterns are decided on the deltas, and the intensity of
\* Duchenne Smile Development is the mean of the AU12 and AU06 deltas rounded
\* to 2 decimals.
C18_PatternsRoundedMean ==
    DeltaReturned
    => /\ PatternsDecidedOnDeltas
       /\ \A x \in PatternIntensities(call.result, "Duchenne Smile Development") :
            /\ x % 10 = 0
            /\ Abs(2 * x - (ReportedDelta(call.result, "AU12")
                            + ReportedDelta(call.result, "AU06"))) < 10

\* a Duchenne smile whose mean delta, 0.351, has three decimals
C18_Witness ==
    /\ DeltaReturned
    /\ ReportedDelta(call.result, "AU12") = 402
    /\ ReportedDelta(call.result, "AU06") = 300
    /\ PatternIntensities(call.result, "Duchenne Smile Development") = {350}

----------------------------------------------------------------------------
(* Properties of the functions that read no state, checked under           *)
(* SpecFunctions                                                           *)

\* |x| < k/1000 for a float x and a literal k/1000
MagnitudeBelow(x, k) ==
    \/ Abs(x.t) < k
    \/ Abs(x.t) = k /\ (IF x.t < 0 THEN -x.off ELSE x.off) < 0

CombinationNames(combinations) ==
    { combinations[i].pattern : i \in 1..Len(combinations) }

\* what the claim says of the combinations found in an action_units mapping
CombinationsAsSpecified(action_units, combinations) ==
    LET has(au) == au \in DOMAIN action_units
        above(au, k) == has(au) /\ action_units[au].intensity > k
        names == CombinationNames(combinations)
    IN  /\ Len(combinations) = Cardinality(names)
        /\ names \subseteq {"Duchenne Smile", "Pan Am Smile", "Brow Flash", "Frown Pattern"}
        /\ "Duchenne Smile" \in names <=> (above("AU06", 300) /\ above("AU12", 300))
        /\ "Pan Am Smile" \in names <=> (above("AU12", 400) /\ ~has("AU06"))
        /\ ~ ({"Duchenne Smile", "Pan Am Smile"} \subseteq names)
        /\ (has("AU06") /\ has("AU12") /\ ~(above("AU06", 300) /\ above("AU12", 300)))
             => names \cap {"Duchenne Smile", "Pan Am Smile"} = {}
        /\ "Brow Flash" \in names <=> (above("AU01", 400) /\ above("AU02", 400))
        /\ "Frown Pattern" \in names <=> (has("AU15") /\ has("AU04"))

\* C20: each AU adapter reports Duchenne Smile iff AU06 and AU12 are present
\* above 0.3, Pan Am Smile iff AU12 is present above 0.4 and AU06 is absent,
\* never both and neither when both AUs are present below a Duchenne
\* threshold, Brow Flash iff AU01 and AU02 are present above 0.4, Frown
\* Pattern iff AU15 and AU04 are present; the two adapters report the same
\* combinations for the same mapping.
C20_FacsCombinations ==
    call.op = "combinations"
    => /\ CombinationsAsSpecified(call.aus, call.facs)
       /\ CombinationsAsSpecified(call.aus, call.simplefacs)
       /\ call.facs = call.simplefacs

\* AU06 and AU12 both present, AU12 above the Pan Am threshold, AU06 not
\* above the Duchenne threshold: no smile, and a frown at low intensity
C20_Witness ==
    /\ call.op = "combinations"
    /\ "AU06" \in DOMAIN call.aus /\ call.aus["AU06"].intensity = 300
    /\ "AU12" \in DOMAIN call.aus /\ call.aus["AU12"].intensity = 500
    /\ CombinationNames(call.facs) = {"Frown Pattern"}

\* C13: the correlation of two emotion records is null exactly when fewer
\* than 2 labels are common to both; otherwise it is computed over exactly
\* the labels common to both, each with its two scores, and common_emotions
\* is the number of common labels (all labels when the label sets are equal).
C13_CorrelationOverIntersection ==
    call.op = "correlation"
    => LET common == DOMAIN call.emotions1 \cap DOMAIN call.emotions2 IN
       /\ call.out.correlation = None <=> Cardinality(common) < 2
       /\ call.out.common_emotions = Cardinality(common)
       /\ Cardinality(common) >= 2
          => LET over == call.out.correlation.pearson_of IN
             /\ { t[1] : t \in over } = common
             /\ Cardinality(over) = Cardinality(common)
             /\ \A t \in over : t[2] = call.emotions1[t[1]] /\ t[3] = call.emotions2[t[1]]
             /\ DOMAIN call.emotions1 = DOMAIN call.emotions2
                => { t[1] : t \in over } = DOMAIN call.emotions1

\* a correlation over the 2 labels common to a record with 3 labels and a
\* record with 2
C13_Witness ==
    /\ call.op = "correlation"
    /\ DOMAIN call.emotions1 = {"happiness", "sadness", "neutral"}
    /\ DOMAIN call.emotions2 = {"happiness", "sadness"}
    /\ call.out.correlation # None
    /\ call.out.common_emotions = 2

----------------------------------------------------------------------------
(* Properties of the comparison, checked under SpecEnsemble *)

\* the dominant label of a qualifying record
DominantOf(n) == returned[n].result.dominant_emotion

\* how many qualifying records have the dominant label l
DominantCount(l) == Cardinality({ n \in Qualifying : DominantOf(n) = l })

DominantLabels == { DominantOf(n) : n \in Qualifying }

EntriesOf(entries, x, y) == { a \in entries : {a.pair[1], a.pair[2]} = {x, y} }

----------------------------------------------------------------------------
(* Properties of the calibration store in memory, checked under Spec *)

\* C29 (as claimed): whenever set_baseline returns False, for an invalid
\* record or because the durable record could not be written, the baseline
\* held in memory and its timestamp are the ones held before the call.
C29_FailedSetKeepsMemory ==
    [][ \A r \in FacsInputs, p \in Persons :
          (call'.op = "set" /\ call'.ret = FALSE /\ SetBaseline(r, p))
          => /\ current_baseline' = current_baseline
             /\ baseline_timestamp' = baseline_timestamp ]_vars

\* C30: after any sequence of store calls, baseline_timestamp is None exactly
\* when no baseline is active and otherwise is the timestamp field of the
\* active baseline; the baseline_timestamp a calculate_delta result reports
\* is the timestamp of the baseline its deltas were computed against.
C30_TimestampMatchesBaseline ==
    /\ (baseline_timestamp = None) <=> ~Truthy(current_baseline)
    /\ Truthy(current_baseline) => baseline_timestamp = current_baseline.timestamp
    /\ (call.op = "delta" /\ "deltas" \in DOMAIN call.result)
         => /\ call.result.baseline_timestamp = current_baseline.timestamp
            /\ call.result.baseline_person = current_baseline.person_id

\* a delta was computed against a baseline that replaced an earlier one at a
\* later time, after a set_baseline whose write failed had left a partial
\* record for the other person
C30_Witness ==
    /\ call.op = "delta"
    /\ "deltas" \in DOMAIN call.result
    /\ call.result.baseline_timestamp = isoformat(1)
    /\ \E p \in Persons : files[baseline_file(p)] = CorruptFile

----------------------------------------------------------------------------
(* Properties of the consensus on ties, checked under SpecEnsemble *)

\* the dominant labels with the highest count among the qualifying records
TiedLabels == { l \in DominantLabels : \A m \in DominantLabels : DominantCount(m) <= DominantCount(l) }

\* the position in the requested list of the first qualifying detector whose
\* dominant label is l
FirstOccurrence(l) ==
    CHOOSE i \in 1..Len(backends) :
      /\ backends[i] \in Qualifying
      /\ DominantOf(backends[i]) = l
      /\ \A j \in 1..(i - 1) :
           backends[j] \in Qualifying => DominantOf(backends[j]) # l

----------------------------------------------------------------------------
(* Detector adapters (src/emotion_backends.py, src/facs_backend.py).  The   *)
(* wrapped models, OpenCV and the file system are the environment of a     *)
(* call: what they do is drawn from a set of behaviours (env).  Raw scores *)
(* are integers in thousandths of the unit of their scale: the percentage  *)
(* 80.4 is 80400, the fraction 0.804 is 804.  The box / region entry of a  *)
(* record is left out.                                                     *)

\* what the image files show
Faces == {"happy", "sad", "torn", "faint"}

\* the images handed to the adapters
ImagePaths == {"happy.jpg", "sad.jpg", "torn.jpg", "faint.jpg"}

\* what the file at a path shows
face_of(image_path) ==
    CASE image_path = "happy.jpg" -> "happy"
      [] image_path = "sad.jpg" -> "sad"
      [] image_path = "torn.jpg" -> "torn"
      [] image_path = "faint.jpg" -> "faint"

\* hash(image_path) % 10000, as a name in TempNames: str hashes are salted per
\* process, and in this process the names of happy.jpg and sad.jpg coincide
hash_mod(image_path) == IF image_path \in {"happy.jpg", "sad.jpg"} THEN 1 ELSE 2

\* temp_path of DeepFaceDetector.detect (the process id is the same for all
\* calls of one process)
temp_path_of(image_path) == hash_mod(image_path)

ImageFile(face) == [state |-> "image", face |-> face]
PartialFile == [state |-> "partial"]

\* an ordered dict of scores for the labels of the wrapped models, in the
\* order DeepFace and FER list them
RawScores(happy, sad, neutral) ==
    << <<"angry", 0>>, <<"disgust", 0>>, <<"fear", 0>>, <<"happy", happy>>,
       <<"sad", sad>>, <<"surprise", 0>>, <<"neutral", neutral>> >>

\* the scores the models give a face when they report percentages: the torn
\* face scores two labels alike after rounding, the faint face was scored
\* with a total of 8 percent
PercentScores(face) ==
    CASE face = "happy" -> RawScores(80400, 9800, 9800)
      [] face = "sad" -> RawScores(10200, 69600, 20200)
      [] face = "torn" -> RawScores(40200, 39800, 20000)
      [] face = "faint" -> RawScores(8000, 0, 0)

\* the same scores reported as fractions
FractionScores(face) ==
    [ i \in 1..Len(PercentScores(face)) |->
        <<PercentScores(face)[i][1], PercentScores(face)[i][2] \div 100>> ]

\* the mapping held by an ordered dict
AsMap(d) ==
    [ k \in Range(OKeys(d)) |-> d[CHOOSE i \in 1..Len(d) : d[i][1] = k][2] ]

\* round(score, 2) of a non-negative score given in thousandths, in
\* hundredths (no score rounded in this model lies halfway between two
\* hundredths)
round_hundredths(score) == (score + 5) \div 10

\* the record an emotion adapter returns when it reports a failure
emotion_error(backend, message) ==
    [ error |-> message, backend |-> backend, face_detected |-> FALSE ]

\* FERDetector.detect: the body of its try block.
\* env.imread: what cv2.imread returns; env.model: what detect_emotions does
fer_try(image_path, env) ==
    IF env.imread = "none"
    THEN Raises(<<"Failed to load image">>)
    ELSE IF env.model = "raises"
    THEN Raises(<<"detect_emotions failed">>)
    ELSE IF env.model = "no_face"
    THEN Returns(emotion_error("FER", <<"No face detected">>))
    ELSE
      LET face_emotions == IF env.model = "no_scores" THEN <<>>
                           ELSE AsMap(FractionScores(face_of(image_path)))
          score(raw) == round_hundredths(Get(face_emotions, raw, 0))
          normalized_emotions ==
            << <<"anger", score("angry")>>, <<"disgust", score("disgust")>>,
               <<"fear", score("fear")>>, <<"sadness", score("sad")>>,
               <<"neutral", score("neutral")>>, <<"surprise", score("surprise")>>,
               <<"happiness", score("happy")>> >>
      IN  Returns(EmotionSuccess("FER", OKeys(normalized_emotions),
                                 AsMap(normalized_emotions)))

\* FERDetector.detect
fer_detect(image_path, env) ==
    LET body == fer_try(image_path, env) IN
    IF body.kind = "raise"
    THEN Returns(emotion_error("FER", <<"FER error analyzing image">> \o body.error))
    ELSE body

FEREnvs == [imread : {"image", "none"}, model : {"raises", "no_face", "no_scores", "scores"}]

\* emotion_mapping.get(emotion, emotion) of _normalize_emotion_names
emotion_mapping(emotion) ==
    CASE emotion = "angry" -> "anger"
      [] emotion = "happy" -> "happiness"
      [] emotion = "sad" -> "sadness"
      [] OTHER -> emotion

\* sum(float(score) for score in deepface_emotions.values())
RECURSIVE total_score(_)
total_score(deepface_emotions) ==
    IF deepface_emotions = <<>> THEN 0
    ELSE Head(deepface_emotions)[2] + total_score(Tail(deepface_emotions))

\* the loop of _normalize_emotion_names over the items that are left
\* (float(score) / 100.0 is exact for the scores of this model)
RECURSIVE normalize_loop(_, _, _)
normalize_loop(items, is_percentage, normalized) ==
    IF items = <<>> THEN normalized
    ELSE LET emotion == Head(items)[1]
             score == Head(items)[2]
             score_decimal == IF is_percentage THEN score \div 100 ELSE score
         IN  normalize_loop(Tail(items), is_percentage,
                            OSet(normalized, emotion_mapping(emotion),
                                 round_hundredths(score_decimal)))

\* DeepFaceDetector._normalize_emotion_names
normalize_emotion_names(deepface_emotions) ==
    LET is_percentage == total_score(deepface_emotions) > 10000
    IN  normalize_loop(deepface_emotions, is_percentage, <<>>)

NoResult == [shape |-> "none", items |-> <<>>]

\* what DeepFace.analyze returns for the image it reads, by the behaviour
\* of the model: a list of results or one result
deepface_analyze(face, model) ==
    CASE model = "percent" ->
           [shape |-> "list", items |-> <<[emotion |-> PercentScores(face)]>>]
      [] model = "fraction" ->
           [shape |-> "dict", items |-> <<[emotion |-> FractionScores(face)]>>]
      [] model = "no_emotion" ->
           [shape |-> "list", items |-> <<[emotion |-> <<>>]>>]
      [] model = "empty_list" ->
           [shape |-> "list", items |-> <<>>]

\* the local variables of a DeepFaceDetector.detect call that starts:
\* _get_deepface raises when the library is not installed
df_begin(image_path, env) ==
    [ pc |-> IF env.installed THEN "copy" ELSE "after",
      image_path |-> image_path,
      temp_path |-> temp_path_of(image_path),
      env |-> env,
      result |-> NoResult,
      raised |-> IF env.installed THEN <<>> ELSE <<"ImportError">>,
      ret |-> Returns(None) ]

\* the part of DeepFaceDetector.detect after the try/finally block, and its
\* except clauses
df_after(l) ==
    IF l.raised = <<"ImportError">>
    THEN Returns(emotion_error("DeepFace", <<"DeepFace not available">>))
    ELSE IF l.raised # <<>>
    THEN Returns(emotion_error("DeepFace", <<"DeepFace error analyzing image">> \o l.raised))
    ELSE IF l.result.items = <<>>
    THEN Returns(emotion_error("DeepFace",
                               <<"DeepFace error analyzing image", "list index out of range">>))
    ELSE
      LET result == l.result.items[1]
          emotions == Get(result, "emotion", <<>>)
      IN  IF emotions = <<>>
          THEN Returns(emotion_error("DeepFace", <<"No emotions detected">>))
          ELSE LET normalized_emotions == normalize_emotion_names(emotions)
               IN  Returns(EmotionSuccess("DeepFace", OKeys(normalized_emotions),
                                          AsMap(normalized_emotions)))

\* detect that removes the transient copy only when nothing was raised
df_step_cleanup_on_success(dir, l) ==
    CASE l.pc = "copy" ->
           IF l.env.copy = "ok"
           THEN [ dir |-> [dir EXCEPT ![l.temp_path] = ImageFile(face_of(l.image_path))],
                  l |-> [l EXCEPT !.pc = "analyze"] ]
           ELSE IF l.env.copy = "fails"
           THEN [ dir |-> dir,
                  l |-> [l EXCEPT !.pc = "after", !.raised = <<"copy failed">>] ]
           ELSE [ dir |-> [dir EXCEPT ![l.temp_path] = PartialFile],
                  l |-> [l EXCEPT !.pc = "after", !.raised = <<"copy failed">>] ]
      [] l.pc = "analyze" ->
           IF dir[l.temp_path].state # "image"
           THEN [ dir |-> dir,
                  l |-> [l EXCEPT !.pc = "after", !.raised = <<"cannot read image">>] ]
           ELSE IF l.env.model = "raises"
           THEN [ dir |-> dir,
                  l |-> [l EXCEPT !.pc = "after", !.raised = <<"analyze failed">>] ]
           ELSE [ dir |-> dir,
                  l |-> [l EXCEPT !.pc = "exists",
                                  !.result = deepface_analyze(dir[l.temp_path].face,
                                                              l.env.model)] ]
      [] l.pc = "exists" ->
           [ dir |-> dir,
             l |-> [l EXCEPT !.pc = IF dir[l.temp_path].state # "absent"
                                    THEN "remove" ELSE "after"] ]
      [] l.pc = "remove" ->
           IF dir[l.temp_path].state = "absent"
           THEN [ dir |-> dir,
                  l |-> [l EXCEPT !.pc = "after", !.raised = <<"FileNotFoundError">>] ]
           ELSE [ dir |-> [dir EXCEPT ![l.temp_path] = NoImage],
                  l |-> [l EXCEPT !.pc = "after"] ]
      [] l.pc = "after" ->
           [ dir |-> dir, l |-> [l EXCEPT !.pc = "done", !.ret = df_after(l)] ]

\* one step of DeepFaceDetector.detect on the temp directory dir:
\*   copy     shutil.copy2(image_path, temp_path); env.copy tells whether it
\*            succeeds, raises before it wrote, or raises after it wrote a part
\*   analyze  DeepFace.analyze reads the file at temp_path
\*   exists   finally: os.path.exists(temp_path)
\*   remove   os.remove(temp_path), which raises when the file is gone
\*   after    the rest of the call
df_step(dir, l) ==
    CASE l.pc = "copy" ->
           IF l.env.copy = "ok"
           THEN [ dir |-> [dir EXCEPT ![l.temp_path] = ImageFile(face_of(l.image_path))],
                  l |-> [l EXCEPT !.pc = "analyze"] ]
           ELSE IF l.env.copy = "fails"
           THEN [ dir |-> dir,
                  l |-> [l EXCEPT !.pc = "exists", !.raised = <<"copy failed">>] ]
           ELSE [ dir |-> [dir EXCEPT ![l.temp_path] = PartialFile],
                  l |-> [l EXCEPT !.pc = "exists", !.raised = <<"copy failed">>] ]
      [] l.pc = "analyze" ->
           IF dir[l.temp_path].state # "image"
           THEN [ dir |-> dir,
                  l |-> [l EXCEPT !.pc = "exists", !.raised = <<"cannot read image">>] ]
           ELSE IF l.env.model = "raises"
           THEN [ dir |-> dir,
                  l |-> [l EXCEPT !.pc = "exists", !.raised = <<"analyze failed">>] ]
           ELSE [ dir |-> dir,
                  l |-> [l EXCEPT !.pc = "exists",
                                  !.result = deepface_analyze(dir[l.temp_path].face,
                                                              l.env.model)] ]
      [] l.pc = "exists" ->
           [ dir |-> dir,
             l |-> [l EXCEPT !.pc = IF dir[l.temp_path].state # "absent"
                                    THEN "remove" ELSE "after"] ]
      [] l.pc = "remove" ->
           IF dir[l.temp_path].state = "absent"
           THEN [ dir |-> dir,
                  l |-> [l EXCEPT !.pc = "after", !.raised = <<"FileNotFoundError">>] ]
           ELSE [ dir |-> [dir EXCEPT ![l.temp_path] = NoImage],
                  l |-> [l EXCEPT !.pc = "after"] ]
      [] l.pc = "after" ->
           [ dir |-> dir, l |-> [l EXCEPT !.pc = "done", !.ret = df_after(l)] ]

\* the steps of a call that runs without interruption, up to its return
RECURSIVE df_run(_, _)
df_run(dir, l) ==
    IF l.pc = "done" THEN [dir |-> dir, l |-> l]
    ELSE df_run(df_step(dir, l).dir, df_step(dir, l).l)

\* DeepFaceDetector.detect, called while no other call is in progress: the
\* temp directory it leaves and what it returns
deepface_detect(dir, image_path, env) ==
    LET end == df_run(dir, df_begin(image_path, env))
    IN  [dir |-> end.dir, ret |-> end.l.ret]

\* behaviours of the environment of a DeepFace call (the copy and the model
\* are not reached when the library is missing)
DeepFaceEnvs ==
    [ installed : {TRUE}, copy : {"ok"},
      model : {"raises", "percent", "fraction", "no_emotion", "empty_list"} ]
    \cup [ installed : {TRUE}, copy : {"fails", "partial"}, model : {"percent"} ]
    \cup [ installed : {FALSE}, copy : {"ok"}, model : {"percent"} ]

\* the record an AU adapter returns when it reports a failure
facs_error(analyzer, message) ==
    [ error |-> message,
      analyzer |-> analyzer,
      face_detected |-> FALSE,
      analysis_type |-> "pure_facs" ]

\* round(float(au_value), 3) of a non-negative value given in
\* ten-thousandths, in thousandths (no value lies halfway)
round_thousandths(au_value) == (au_value + 5) \div 10

\* the AU columns of the first row of a py-feat result, in ten-thousandths:
\* two active AUs, two AUs at or below 0.1, and a frame without AU columns
RawAUFrames ==
    { [a \in {"AU06", "AU12"} |-> IF a = "AU06" THEN 3004 ELSE 6002],
      [a \in {"AU06", "AU12"} |-> IF a = "AU06" THEN 400 ELSE 1000],
      [a \in {} |-> 0] }

\* FACSDetector.analyze: the body of its try block.
\* env.detector: what _get_detector does; env.imread: what cv2.imread
\* returns; env.model: what detect_image does; env.frame: the AU columns.
\* The "no face" return reads self.backend_name, which FACSDetector lacks.
facs_try(env) ==
    IF env.detector = "import_error"
    THEN Raises(<<"ImportError">>)
    ELSE IF env.detector = "init_error"
    THEN Raises(<<"Failed to initialize FACS detector">>)
    ELSE IF env.imread = "none"
    THEN Raises(<<"Failed to load image">>)
    ELSE IF env.model = "raises"
    THEN Raises(<<"detect_image failed">>)
    ELSE IF env.model = "no_face"
    THEN Raises(<<"AttributeError", "backend_name">>)
    ELSE
      LET action_units ==
            [ col \in { c \in DOMAIN env.frame : env.frame[c] > 1000 } |->
                [intensity |-> round_thousandths(env.frame[col])] ]
      IN  Returns(FacsSuccess(action_units, "FACS"))

\* FACSDetector.analyze
facs_analyze(env) ==
    LET body == facs_try(env) IN
    IF body.kind = "raise" /\ body.error = <<"ImportError">>
    THEN Returns(facs_error("FACS", <<"FACS detector not available">>))
    ELSE IF body.kind = "raise"
    THEN Returns(facs_error("FACS", <<"FACS error analyzing image">> \o body.error))
    ELSE body

FacsEnvs ==
    [ detector : {"import_error", "init_error"}, imread : {"image"},
      model : {"frame"}, frame : {[a \in {} |-> 0]} ]
    \cup [ detector : {"ok"}, imread : {"none"}, model : {"frame"}, frame : {[a \in {} |-> 0]} ]
    \cup [ detector : {"ok"}, imread : {"image"}, model : {"raises", "no_face"},
           frame : {[a \in {} |-> 0]} ]
    \cup [ detector : {"ok"}, imread : {"image"}, model : {"frame"}, frame : RawAUFrames ]

\* what _approximate_action_units computes from the pixels of a face (it
\* always reports AU05 or AU07, and drops values up to 0.05), in thousandths
ApproximatedAUs ==
    { [a \in {"AU01", "AU05", "AU12"} |->
         IF a = "AU01" THEN 350 ELSE IF a = "AU05" THEN 600 ELSE 400],
      [a \in {"AU01", "AU04", "AU07"} |-> IF a = "AU01" THEN 100 ELSE 700] }

\* SimpleFACSDetector.analyze: the body of its try block.
\* env.imread: what cv2.imread returns; env.cascade: what detectMultiScale
\* does; env.aus: the approximated action units
simplefacs_try(env) ==
    IF env.imread = "none"
    THEN Raises(<<"Failed to load image">>)
    ELSE IF env.cascade = "raises"
    THEN Raises(<<"detectMultiScale failed">>)
    ELSE IF env.cascade = "no_face"
    THEN Returns(facs_error("SimpleFACS", <<"No face detected">>))
    ELSE Returns(FacsSuccess([a \in DOMAIN env.aus |-> [intensity |-> env.aus[a]]],
                             "SimpleFACS"))

\* SimpleFACSDetector.analyze
simplefacs_analyze(env) ==
    LET body == simplefacs_try(env) IN
    IF body.kind = "raise"
    THEN Returns(facs_error("SimpleFACS", <<"SimpleFACS error">> \o body.error))
    ELSE body

SimpleFacsEnvs ==
    [ imread : {"none"}, cascade : {"faces"}, aus : {[a \in {} |-> 0]} ]
    \cup [ imread : {"image"}, cascade : {"raises", "no_face"}, aus : {[a \in {} |-> 0]} ]
    \cup [ imread : {"image"}, cascade : {"faces"}, aus : ApproximatedAUs ]

----------------------------------------------------------------------------
(* Specification of the adapters called one at a time *)

\* the record of a completed adapter call
AdapterCall(op, adapter, image_path, env, o) ==
    [ op |-> op, adapter |-> adapter, image_path |-> image_path, env |-> env,
      outcome |-> o ]

\* the last record of an emotion adapter, after it returned o
Remember(adapter, o) ==
    IF o.kind = "return" THEN [detected EXCEPT ![adapter] = o.result] ELSE detected

FERDetect(image_path, env) ==
    LET o == fer_detect(image_path, env) IN
    /\ call' = AdapterCall("detect", "FER", image_path, env, o)
    /\ detected' = Remember("FER", o)
    /\ UNCHANGED <<temp_dir, threads>>
    /\ UNCHANGED <<current_baseline, baseline_timestamp, files, clock, written>>
    /\ UNCHANGED ensembleVars

DeepFaceDetect(image_path, env) ==
    LET end == deepface_detect(temp_dir, image_path, env) IN
    /\ temp_dir' = end.dir
    /\ call' = AdapterCall("detect", "DeepFace", image_path, env, end.ret)
    /\ detected' = Remember("DeepFace", end.ret)
    /\ UNCHANGED threads
    /\ UNCHANGED <<current_baseline, baseline_timestamp, files, clock, written>>
    /\ UNCHANGED ensembleVars

FACSAnalyze(image_path, env) ==
    /\ call' = AdapterCall("analyze", "FACS", image_path, env, facs_analyze(env))
    /\ UNCHANGED <<temp_dir, detected, threads>>
    /\ UNCHANGED <<current_baseline, baseline_timestamp, files, clock, written>>
    /\ UNCHANGED ensembleVars

SimpleFACSAnalyze(image_path, env) ==
    /\ call' = AdapterCall("analyze", "SimpleFACS", image_path, env, simplefacs_analyze(env))
    /\ UNCHANGED <<temp_dir, detected, threads>>
    /\ UNCHANGED <<current_baseline, baseline_timestamp, files, clock, written>>
    /\ UNCHANGED ensembleVars

NextAdapters ==
    \/ \E image_path \in ImagePaths, env \in FEREnvs : FERDetect(image_path, env)
    \/ \E image_path \in ImagePaths, env \in DeepFaceEnvs : DeepFaceDetect(image_path, env)
    \/ \E env \in FacsEnvs : FACSAnalyze("happy.jpg", env)
    \/ \E env \in SimpleFacsEnvs : SimpleFACSAnalyze("happy.jpg", env)

SpecAdapters == Init /\ [][NextAdapters]_vars

----------------------------------------------------------------------------
(* Specification of DeepFaceDetector.detect called in two threads of one   *)
(* process: each step of a call is atomic, the steps of the two calls      *)
(* interleave, and both calls use the same temp directory                  *)

\* the images and the behaviours of the environment of the concurrent calls
ConcurrentPaths == {"happy.jpg", "sad.jpg", "torn.jpg"}
ConcurrentEnvs ==
    [ installed : {TRUE}, copy : {"ok"}, model : {"percent", "raises"} ]
    \cup [ installed : {TRUE}, copy : {"fails"}, model : {"percent"} ]

\* thread t enters detect
DetectBegin(t, image_path, env) ==
    /\ threads[t].pc = "idle"
    /\ threads' = [threads EXCEPT ![t] = df_begin(image_path, env)]
    /\ UNCHANGED <<temp_dir, detected, call>>
    /\ UNCHANGED <<current_baseline, baseline_timestamp, files, clock, written>>
    /\ UNCHANGED ensembleVars

\* thread t takes the next step of its call
DetectStep(t) ==
    /\ threads[t].pc \notin {"idle", "done"}
    /\ temp_dir' = df_step(temp_dir, threads[t]).dir
    /\ threads' = [threads EXCEPT ![t] = df_step(temp_dir, threads[t]).l]
    /\ UNCHANGED <<detected, call>>
    /\ UNCHANGED <<current_baseline, baseline_timestamp, files, clock, written>>
    /\ UNCHANGED ensembleVars

\* the call of thread t returns
DetectReturn(t) ==
    /\ threads[t].pc = "done"
    /\ call' = [op |-> "detect", adapter |-> "DeepFace", outcome |-> threads[t].ret]
    /\ detected' = Remember("DeepFace", threads[t].ret)
    /\ threads' = [threads EXCEPT ![t] = Idle]
    /\ UNCHANGED temp_dir
    /\ UNCHANGED <<current_baseline, baseline_timestamp, files, clock, written>>
    /\ UNCHANGED ensembleVars

NextDetectConcurrent ==
    \/ \E t \in ThreadIds, image_path \in ConcurrentPaths, env \in ConcurrentEnvs :
         DetectBegin(t, image_path, env)
    \/ \E t \in ThreadIds : DetectStep(t)
    \/ \E t \in ThreadIds : DetectReturn(t)

SpecDetectConcurrent == Init /\ [][NextDetectConcurrent]_vars

----------------------------------------------------------------------------
(* Properties of the adapters, checked under SpecAdapters *)

\* an adapter call has completed
AdapterCalled == call.op \in {"detect", "analyze"}

\* the environment of the completed call was one of: the image cannot be
\* read (or copied), the library or the model raises, the model returns no
\* face, the model returns empty score data
FailureCase ==
    CASE call.adapter = "FER" ->
           call.env.imread = "none" \/ call.env.model \in {"raises", "no_face", "no_scores"}
      [] call.adapter = "DeepFace" ->
           \/ ~call.env.installed
           \/ call.env.copy # "ok"
           \/ call.env.model \in {"raises", "empty_list", "no_emotion"}
      [] call.adapter = "FACS" ->
           \/ call.env.detector # "ok"
           \/ call.env.imread = "none"
           \/ call.env.model \in {"raises", "no_face"}
           \/ DOMAIN call.env.frame = {}
      [] call.adapter = "SimpleFACS" ->
           call.env.imread = "none" \/ call.env.cascade \in {"raises", "no_face"}

\* C21 (as claimed): detect / analyze of every adapter returns (it never
\* raises), and when the wrapped model raised, returned no face or returned
\* empty score data, or the image could not be read, the returned record has
\* face_detected = False and an error description.
C21_AdaptersReportFailure ==
    AdapterCalled
    => /\ call.outcome.kind = "return"
       /\ FailureCase
          => /\ "error" \in DOMAIN call.outcome.result
             /\ call.outcome.result.face_detected = FALSE

\* C22: every record an emotion adapter returns carries neither emotions nor
\* a dominant label when face_detected is false, and when its emotions are
\* not empty its dominant label is a key of emotions with the highest score
\* and its confidence is that score.
C22_EmotionRecordInvariant ==
    (AdapterCalled /\ call.adapter \in EmotionAdapters /\ call.outcome.kind = "return")
    => LET r == call.outcome.result IN
       /\ ~r.face_detected
          => "emotions" \notin DOMAIN r /\ "dominant_emotion" \notin DOMAIN r
       /\ ("emotions" \in DOMAIN r /\ DOMAIN r.emotions # {})
          => /\ r.dominant_emotion \in DOMAIN r.emotions
             /\ \A e \in DOMAIN r.emotions : r.emotions[e] <= r.emotions[r.dominant_emotion]
             /\ r.confidence_score = r.emotions[r.dominant_emotion]

\* DeepFace scored the torn face on the percentage scale: two labels share
\* the highest normalized score, and the dominant label is one of them
C22_Witness ==
    /\ AdapterCalled
    /\ call.adapter = "DeepFace"
    /\ call.image_path = "torn.jpg"
    /\ call.env.model = "percent"
    /\ call.outcome.result.face_detected
    /\ call.outcome.result.emotions["happiness"] = 40
    /\ call.outcome.result.emotions["sadness"] = 40
    /\ call.outcome.result.dominant_emotion = "happiness"
    /\ call.outcome.result.confidence_score = 40

\* C23 (as claimed): every emotion intensity in a record DeepFaceDetector
\* returns lies in [0, 1], whether the model reported its scores as
\* percentages (each in 0..100) or as fractions (each in 0..1).
C23_IntensitiesInUnitInterval ==
    (AdapterCalled /\ call.adapter = "DeepFace" /\ "emotions" \in DOMAIN call.outcome.result)
    => \A e \in DOMAIN call.outcome.result.emotions :
         /\ 0 <= call.outcome.result.emotions[e]
         /\ call.outcome.result.emotions[e] <= 100

\* C24: when DeepFaceDetector.detect has returned, the transient copy of its
\* input image does not exist, whether the analysis succeeded, the model
\* raised or returned no scores, or the copy itself failed.
C24_TransientCopyRemoved ==
    (AdapterCalled /\ call.adapter = "DeepFace")
    => temp_dir[temp_path_of(call.image_path)] = NoImage

\* the copy failed after it had written a part of the file, detect reported
\* the failure, and the partial copy is gone
C24_Witness ==
    /\ AdapterCalled
    /\ call.adapter = "DeepFace"
    /\ call.env.copy = "partial"
    /\ call.outcome.kind = "return"
    /\ "error" \in DOMAIN call.outcome.result
    /\ temp_dir[temp_path_of(call.image_path)] = NoImage

\* C27 (as claimed): when the last records of two different adapters carry
\* equal normalized score mappings, they report the same dominant label,
\* also when two labels share the highest score.
C27_CanonicalTieOrder ==
    \A a, b \in EmotionAdapters :
      ("emotions" \in DOMAIN detected[a] /\ "emotions" \in DOMAIN detected[b]
         /\ detected[a].emotions = detected[b].emotions)
      => detected[a].dominant_emotion = detected[b].dominant_emotion

----------------------------------------------------------------------------
(* Properties of concurrent detect calls, checked under SpecDetectConcurrent *)

\* what the call of thread t returns when it runs while no other call is in
\* progress
Alone(t) ==
    deepface_detect(NoTempFiles, threads[t].image_path, threads[t].env).ret

\* C28 (as claimed): a detect call that ran concurrently with another one
\* returns what it returns when run alone, and while a call is about to
\* analyze its transient copy the file at its temp_path is the copy it made.
C28_ConcurrentDetectIsolated ==
    \A t \in ThreadIds :
      /\ threads[t].pc = "done" => threads[t].ret = Alone(t)
      /\ threads[t].pc = "analyze"
         => temp_dir[threads[t].temp_path] = ImageFile(face_of(threads[t].image_path))

----------------------------------------------------------------------------
(* Specification of the calibration store used by two requests at once:    *)
(* the one BaselineManager of the process (baseline_manager.py:296-297) is *)
(* called from two threads without a lock.  Thread Reader runs             *)
(* calculate_delta and get_baseline_info, thread Writer runs set_baseline  *)
(* and clear_baseline; every read and every assignment of an attribute of  *)
(* the store is one atomic step, and the steps of the two calls            *)
(* interleave.  The write of the durable record succeeds.                  *)

Reader == 1
Writer == 2

\* the attributes of the store that the reads look at
StoreState == [cb |-> current_baseline, ts |-> baseline_timestamp]

\* set_baseline calls of the writer, and the record the reader hands to
\* calculate_delta
WriterInputs ==
    { <<FacsSuccess(AUs("AU12" :> 600), "SimpleFACS"), "default">>,
      <<FacsSuccess(AUs("AU06" :> 100 @@ "AU12" :> 600), "SimpleFACS"), "alice">>,
      <<FacsError("SimpleFACS"), "default">> }
ReaderRecord == FacsSuccess(AUs("AU12" :> 900), "SimpleFACS")

\* history: the states of the store that a call running entirely before or
\* entirely after the write in progress would find
Quiescent ==
    IF threads[Writer].pc = "idle" THEN {StoreState}
    ELSE {threads[Writer].before, threads[Writer].after}

\* history: the reader's call, if one is in progress, overlaps a write that
\* leaves the store in state s
Overlap(s) ==
    IF threads[Reader].pc = "idle" THEN threads[Reader]
    ELSE [threads[Reader] EXCEPT !.seen = @ \cup {s}]

\* the reader enters calculate_delta
BeginDelta(facs_result) ==
    /\ threads[Reader].pc = "idle"
    /\ threads' = [threads EXCEPT ![Reader] =
                     [ op |-> "delta", pc |-> "check", rec |-> facs_result,
                       seen |-> Quiescent, baseline_aus |-> EmptyAUs,
                       timestamp |-> None, ret |-> Returns(None) ]]
    /\ UNCHANGED <<current_baseline, baseline_timestamp, files, clock, call, written>>
    /\ UNCHANGED <<temp_dir, detected>>
    /\ UNCHANGED ensembleVars

\* one step of calculate_delta:
\*   check           the tests of lines 112 and 118
\*   read_aus        line 125; subscripting None raises inside the try block
\*   read_timestamp  line 167
\*   read_person     line 168, and the return of the dict
DeltaStep ==
    LET l == threads[Reader]
        failed == [error |-> "Delta calculation failed", has_baseline |-> TRUE]
    IN
    /\ l.pc \notin {"idle", "done"}
    /\ l.op = "delta"
    /\ \E order \in IterationOrders(all_aus(l.baseline_aus,
                                            Get(l.rec, "action_units", EmptyAUs))) :
         threads' = [threads EXCEPT ![Reader] =
           CASE l.pc = "check" ->
                  IF ~Truthy(current_baseline)
                  THEN [l EXCEPT !.pc = "done",
                                 !.ret = Returns([error |-> "No baseline set",
                                                  has_baseline |-> FALSE])]
                  ELSE IF ~is_valid_facs_result(l.rec)
                  THEN [l EXCEPT !.pc = "done",
                                 !.ret = Returns([error |-> "Invalid FACS result",
                                                  has_baseline |-> TRUE])]
                  ELSE [l EXCEPT !.pc = "read_aus"]
             [] l.pc = "read_aus" ->
                  IF ~IsDict(current_baseline)
                  THEN [l EXCEPT !.pc = "done", !.ret = Returns(failed)]
                  ELSE [l EXCEPT !.pc = "read_timestamp",
                                 !.baseline_aus = current_baseline.action_units]
             [] l.pc = "read_timestamp" ->
                  [l EXCEPT !.pc = "read_person", !.timestamp = baseline_timestamp]
             [] l.pc = "read_person" ->
                  IF ~IsDict(current_baseline)
                  THEN [l EXCEPT !.pc = "done", !.ret = Returns(failed)]
                  ELSE [l EXCEPT !.pc = "done",
                                 !.ret = Returns(delta_record(l.baseline_aus, l.timestamp,
                                                              current_baseline.person_id,
                                                              l.rec, order))] ]
    /\ UNCHANGED <<current_baseline, baseline_timestamp, files, clock, call, written>>
    /\ UNCHANGED <<temp_dir, detected>>
    /\ UNCHANGED ensembleVars

\* the reader enters get_baseline_info
BeginInfo ==
    /\ threads[Reader].pc = "idle"
    /\ threads' = [threads EXCEPT ![Reader] =
                     [ op |-> "info", pc |-> "check", seen |-> Quiescent,
                       person_id |-> "", timestamp |-> None, total_aus |-> 0,
                       analyzer |-> "", now |-> clock, ret |-> Returns(None) ]]
    /\ UNCHANGED <<current_baseline, baseline_timestamp, files, clock, call, written>>
    /\ UNCHANGED <<temp_dir, detected>>
    /\ UNCHANGED ensembleVars

\* one step of get_baseline_info: the test of line 216, then the reads of
\* self.current_baseline of lines 220 to 225, each of which raises
\* TypeError when the attribute is None by then
InfoStep ==
    LET l == threads[Reader]
        gone == [l EXCEPT !.pc = "done", !.ret = Raises(<<"TypeError">>)]
    IN
    /\ l.pc \notin {"idle", "done"}
    /\ l.op = "info"
    /\ threads' = [threads EXCEPT ![Reader] =
         IF l.pc = "check"
         THEN IF ~Truthy(current_baseline)
              THEN [l EXCEPT !.pc = "done", !.ret = Returns(None)]
              ELSE [l EXCEPT !.pc = "read_person"]
         ELSE IF ~IsDict(current_baseline) THEN gone
         ELSE CASE l.pc = "read_person" ->
                     [l EXCEPT !.pc = "read_timestamp",
                               !.person_id = current_baseline.person_id]
                [] l.pc = "read_timestamp" ->
                     [l EXCEPT !.pc = "read_total",
                               !.timestamp = current_baseline.timestamp]
                [] l.pc = "read_total" ->
                     [l EXCEPT !.pc = "read_analyzer",
                               !.total_aus = current_baseline.total_aus_detected]
                [] l.pc = "read_analyzer" ->
                     [l EXCEPT !.pc = "read_age",
                               !.analyzer = current_baseline.analyzer]
                [] l.pc = "read_age" ->
                     [l EXCEPT !.pc = "done", !.now = clock,
                               !.ret = Returns(info_record(
                                   l.person_id, l.timestamp, l.total_aus, l.analyzer,
                                   clock - fromisoformat(current_baseline.timestamp)))] ]
    /\ UNCHANGED <<current_baseline, baseline_timestamp, files, clock, call, written>>
    /\ UNCHANGED <<temp_dir, detected>>
    /\ UNCHANGED ensembleVars

\* the call of the reader returns (or raises) to the request handler
ReaderReturn ==
    /\ threads[Reader].pc = "done"
    /\ threads' = [threads EXCEPT ![Reader] = Idle]
    /\ UNCHANGED <<current_baseline, baseline_timestamp, files, clock, call, written>>
    /\ UNCHANGED <<temp_dir, detected>>
    /\ UNCHANGED ensembleVars

\* the writer enters set_baseline: lines 44 to 56
BeginSet(facs_result, person_id) ==
    LET data == baseline_data(facs_result, person_id, clock)
        after == IF is_valid_facs_result(facs_result)
                 THEN [cb |-> data, ts |-> data.timestamp]
                 ELSE StoreState
    IN
    /\ threads[Writer].pc = "idle"
    /\ threads' = [threads EXCEPT
         ![Writer] = [ op |-> "set",
                       pc |-> IF is_valid_facs_result(facs_result)
                              THEN "assign_baseline" ELSE "done",
                       person |-> person_id, before |-> StoreState, after |-> after,
                       ret |-> FALSE ],
         ![Reader] = Overlap(after) ]
    /\ UNCHANGED <<current_baseline, baseline_timestamp, files, clock, call, written>>
    /\ UNCHANGED <<temp_dir, detected>>
    /\ UNCHANGED ensembleVars

\* the writer enters clear_baseline
BeginClear(person_id) ==
    /\ threads[Writer].pc = "idle"
    /\ threads' = [threads EXCEPT
         ![Writer] = [ op |-> "clear", pc |-> "assign_baseline", person |-> person_id,
                       before |-> StoreState, after |-> [cb |-> None, ts |-> None],
                       ret |-> FALSE ],
         ![Reader] = Overlap([cb |-> None, ts |-> None]) ]
    /\ UNCHANGED <<current_baseline, baseline_timestamp, files, clock, call, written>>
    /\ UNCHANGED <<temp_dir, detected>>
    /\ UNCHANGED ensembleVars

\* one step of set_baseline or clear_baseline:
\*   assign_baseline   line 59 / line 194
\*   assign_timestamp  line 60 / line 195
\*   write             lines 63 to 68 / lines 198 to 203
WriterStep ==
    LET l == threads[Writer]
        f == baseline_file(l.person)
    IN
    /\ l.pc \notin {"idle", "done"}
    /\ IF l.pc = "assign_baseline"
       THEN /\ current_baseline' = l.after.cb
            /\ threads' = [threads EXCEPT ![Writer].pc = "assign_timestamp"]
            /\ UNCHANGED <<baseline_timestamp, files, written>>
       ELSE IF l.pc = "assign_timestamp"
       THEN /\ baseline_timestamp' = l.after.ts
            /\ threads' = [threads EXCEPT ![Writer].pc = "write"]
            /\ UNCHANGED <<current_baseline, files, written>>
       ELSE /\ files' = [files EXCEPT ![f] = IF l.op = "set"
                                             THEN write_document(f, l.after.cb)
                                             ELSE NoFile]
            /\ written' = [written EXCEPT ![l.person] = l.after.cb]
            /\ threads' = [threads EXCEPT ![Writer].pc = "done", ![Writer].ret = TRUE]
            /\ UNCHANGED <<current_baseline, baseline_timestamp>>
    /\ UNCHANGED <<clock, call>>
    /\ UNCHANGED <<temp_dir, detected>>
    /\ UNCHANGED ensembleVars

\* the call of the writer returns
WriterReturn ==
    /\ threads[Writer].pc = "done"
    /\ threads' = [threads EXCEPT ![Writer] = Idle]
    /\ UNCHANGED <<current_baseline, baseline_timestamp, files, clock, call, written>>
    /\ UNCHANGED <<temp_dir, detected>>
    /\ UNCHANGED ensembleVars

NextStoreConcurrent ==
    \/ BeginDelta(ReaderRecord)
    \/ DeltaStep
    \/ BeginInfo
    \/ InfoStep
    \/ ReaderReturn
    \/ \E input \in WriterInputs : BeginSet(input[1], input[2])
    \/ \E p \in Persons : BeginClear(p)
    \/ WriterStep
    \/ WriterReturn
    \/ Tick /\ UNCHANGED <<ensembleVars, adapterVars>>

SpecStoreConcurrent == Init /\ [][NextStoreConcurrent]_vars

----------------------------------------------------------------------------
(* Properties of concurrent store calls, checked under SpecStoreConcurrent *)

\* what calculate_delta returns when it runs without interruption in the
\* store state s
AtomicDelta(s, facs_result) ==
    IF ~Truthy(s.cb)
    THEN { Returns([error |-> "No baseline set", has_baseline |-> FALSE]) }
    ELSE IF ~is_valid_facs_result(facs_result)
    THEN { Returns([error |-> "Invalid FACS result", has_baseline |-> TRUE]) }
    ELSE { Returns(delta_record(s.cb.action_units, s.ts, s.cb.person_id,
                                facs_result, order)) :
             order \in IterationOrders(all_aus(s.cb.action_units,
                                               Get(facs_result, "action_units", EmptyAUs))) }

\* what get_baseline_info returns when it runs without interruption in the
\* store state s at time now
AtomicInfo(s, now) == { Returns(baseline_info(s.cb, now)) }

\* C25 (as claimed): a calculate_delta or get_baseline_info call that ran
\* while set_baseline or clear_baseline calls were in progress returns what it
\* would return if run entirely before or entirely after one of these writes;
\* in particular get_baseline_info does not raise.
C25_ReadsAtomic ==
    LET l == threads[Reader] IN
    l.pc = "done"
    => /\ l.op = "delta" => \E s \in l.seen : l.ret \in AtomicDelta(s, l.rec)
       /\ l.op = "info" => \E s \in l.seen : l.ret \in AtomicInfo(s, l.now)
====
